---- MODULE Spec2Model ----
(***************************************************************************)
(* Account Ledger Engine of the Global Digital Bank demo.                  *)
(*                                                                         *)
(* The model follows the Python sources: Account (models/account.py),      *)
(* BankingService (services/banking_services.py), the transaction log and  *)
(* the account file (utils/file_manager.py), and the feature classes the   *)
(* service delegates to (models/member1.py .. member6.py).  BankingService *)
(* imports every member class successfully, so the member-present branch   *)
(* of each dispatch is the one that runs.                                  *)
(*                                                                         *)
(* Money is a Python float in the source.  Here it is an integer number of *)
(* thousandths of a rupee, so that amounts finer than the two decimals of  *)
(* the account file exist in the model.                                    *)
(***************************************************************************)
EXTENDS Integers, Sequences, FiniteSets, TLC

\* ------------------------------------------------------------------------
\* Bounds of the model
\* ------------------------------------------------------------------------

\* create_account is enabled while fewer than MaxAccounts numbers were handed
\* out by this BankingService instance.
MaxAccounts == 2

\* An operation is taken only if the transaction log stays within MaxLog rows.
MaxLog == 4

\* schedule_transfer and add_recurring are enabled while fewer than MaxJobs
\* jobs are pending in the two lists together.
MaxJobs == 2

\* The clock advances up to MaxTime days.
MaxTime == 1
MaxDaily == 300

\* ------------------------------------------------------------------------
\* Program constants
\* ------------------------------------------------------------------------

\* Thousandths of a rupee per rupee (representation of the float balance).
Scale == 1000

Rs(x) == x * Scale

\* Account.MIN_BALANCE
MIN_BALANCE == [Savings |-> Rs(500), Current |-> Rs(1000)]

\* Account.MAX_SINGLE_DEPOSIT
MAX_SINGLE_DEPOSIT == Rs(100000)

\* BankingService.START_ACCOUNT_NO
START_ACCOUNT_NO == 1001

\* Default min_allowed of Member2Features.can_withdraw_without_violating_min
\* and the min_balance BankingService.transfer passes to Member2Features.transfer.
MEMBER2_MIN_BALANCE == Rs(500)

\* Minimum age accepted by Member4Features.verify_age.
MIN_AGE == 18

\* ------------------------------------------------------------------------
\* Small helpers
\* ------------------------------------------------------------------------

Abs(x) == IF x < 0 THEN -x ELSE x

Range(s) == {s[i] : i \in 1..Len(s)}

IsPrefix(s, t) == Len(s) <= Len(t) /\ SubSeq(t, 1, Len(s)) = s

SetMax(S) == CHOOSE x \in S : \A y \in S : y <= x

\* str.title() on the account-type strings the model feeds in.
Title(t) ==
    CASE t = "savings" -> "Savings"
      [] t = "current" -> "Current"
      [] t = "gold" -> "Gold"
      [] t = "active" -> "Active"
      [] t = "inactive" -> "Inactive"
      [] OTHER -> t

\* ------------------------------------------------------------------------
\* Account (models/account.py)
\* ------------------------------------------------------------------------

\* _HAVE_BCRYPT: whether "import bcrypt" succeeded when models/account.py
\* was loaded.
VARIABLE HAVE_BCRYPT

\* The pin field: None, a text kept as it was given, or a bcrypt hash (kept
\* with the digits it was made from, which bcrypt.checkpw recovers a match
\* from and nothing else reads).
NoPin == [kind |-> "none", text |-> <<>>]
PlainPin(digits) == [kind |-> "plain", text |-> digits]
HashedPin(digits) == [kind |-> "bcrypt", text |-> digits]

\* Account.__post_init__: type and status normalisation of a new Account
\* made without a pin.
NewAccount(account_type, balance, status) ==
    [account_type |-> IF Title(account_type) \in DOMAIN MIN_BALANCE
                      THEN Title(account_type) ELSE "Savings",
     balance |-> balance,
     status |-> IF Title(status) = "Active" THEN "Active" ELSE "Inactive",
     pin |-> NoPin]

\* Account._hash_pin: the text itself when bcrypt is missing.
Account_hash_pin(plain_pin) ==
    IF ~HAVE_BCRYPT THEN PlainPin(plain_pin) ELSE HashedPin(plain_pin)

\* Account.set_pin
Account_set_pin(acc, plain_pin) ==
    IF Len(plain_pin) < 4
    THEN [ok |-> FALSE, err |-> "InvalidPin", acc |-> acc]
    ELSE [ok |-> TRUE, err |-> "None",
          acc |-> [acc EXCEPT !.pin = Account_hash_pin(plain_pin)]]

\* Account.check_pin: bcrypt.checkpw against a hash when bcrypt is there,
\* otherwise the stored text compared with the attempt (a hash, as a text,
\* is none of the attempts of the model).
Account_check_pin(acc, attempt) ==
    IF acc.pin = NoPin THEN FALSE
    ELSE IF HAVE_BCRYPT /\ acc.pin.kind = "bcrypt"
         THEN acc.pin.text = attempt
    ELSE acc.pin.kind = "plain" /\ acc.pin.text = attempt

is_active(acc) == acc.status = "Active"

\* Account.deposit without the status test: an Inactive account is credited.
Account_deposit_any_status(acc, amt) ==
    IF amt <= 0 THEN [ok |-> FALSE, err |-> "InvalidAmount", acc |-> acc]
    ELSE IF amt > MAX_SINGLE_DEPOSIT
         THEN [ok |-> FALSE, err |-> "LimitExceeded", acc |-> acc]
    ELSE [ok |-> TRUE, err |-> "None",
          acc |-> [acc EXCEPT !.balance = @ + amt]]

\* Account.deposit: (ok, error kind, account afterwards).
Account_deposit(acc, amt) ==
    IF amt <= 0 THEN [ok |-> FALSE, err |-> "InvalidAmount", acc |-> acc]
    ELSE IF amt > MAX_SINGLE_DEPOSIT
         THEN [ok |-> FALSE, err |-> "LimitExceeded", acc |-> acc]
    ELSE IF ~is_active(acc)
         THEN [ok |-> FALSE, err |-> "AccountInactive", acc |-> acc]
    ELSE [ok |-> TRUE, err |-> "None",
          acc |-> [acc EXCEPT !.balance = @ + amt]]

\* Account.withdraw without the status test: an Inactive account is debited.
Account_withdraw_any_status(acc, amt) ==
    IF amt <= 0 THEN [ok |-> FALSE, err |-> "InvalidAmount", acc |-> acc]
    ELSE IF acc.balance - amt < MIN_BALANCE[acc.account_type]
         THEN [ok |-> FALSE, err |-> "InsufficientFunds", acc |-> acc]
    ELSE [ok |-> TRUE, err |-> "None",
          acc |-> [acc EXCEPT !.balance = @ - amt]]

\* Account.withdraw with "<=" for "<": a withdrawal that would leave exactly
\* the minimum balance is refused.
Account_withdraw_strict(acc, amt) ==
    IF amt <= 0 THEN [ok |-> FALSE, err |-> "InvalidAmount", acc |-> acc]
    ELSE IF ~is_active(acc)
         THEN [ok |-> FALSE, err |-> "AccountInactive", acc |-> acc]
    ELSE IF acc.balance - amt <= MIN_BALANCE[acc.account_type]
         THEN [ok |-> FALSE, err |-> "InsufficientFunds", acc |-> acc]
    ELSE [ok |-> TRUE, err |-> "None",
          acc |-> [acc EXCEPT !.balance = @ - amt]]

\* Account.withdraw: enforces the type's minimum balance.
Account_withdraw(acc, amt) ==
    IF amt <= 0 THEN [ok |-> FALSE, err |-> "InvalidAmount", acc |-> acc]
    ELSE IF ~is_active(acc)
         THEN [ok |-> FALSE, err |-> "AccountInactive", acc |-> acc]
    ELSE IF acc.balance - amt < MIN_BALANCE[acc.account_type]
         THEN [ok |-> FALSE, err |-> "InsufficientFunds", acc |-> acc]
    ELSE [ok |-> TRUE, err |-> "None",
          acc |-> [acc EXCEPT !.balance = @ - amt]]

\* Account.apply_overdraft_fee: subtracts the fee, no floor.
Account_apply_overdraft_fee(acc, fee) == [acc EXCEPT !.balance = @ - fee]

\* ------------------------------------------------------------------------
\* Transaction log (utils/file_manager.py)
\* ------------------------------------------------------------------------

\* The action column is a string such as "DEPOSIT", "TRANSFER_OUT->1002" or
\* "REVERSAL->DEPOSIT".  It is kept as the sequence of its keywords (action)
\* and the counterparty number written after a transfer keyword (peer, 0 when
\* the string carries none); "X in action" of the source is Contains(action, X).
Contains(action, word) == word \in Range(action)

\* datetime.now(), in days.
VARIABLE now

\* Whether open(TRANSACTIONS_FILE, "a") succeeds.  When it raises, the
\* "except Exception: pass" of log_transaction leaves the file as it was.
VARIABLE log_writable

\* log_transaction opening the file with mode "w" for "a": the file is
\* rewritten with the new row alone.
log_transaction_rewrite(log, account_number, action, peer, amount, balance_after) ==
    IF ~log_writable THEN log ELSE
    <<[account_number |-> account_number, action |-> action,
       peer |-> peer, amount |-> amount, balance_after |-> balance_after,
       timestamp |-> now]>>

\* log_transaction: appends one row; every exception is swallowed.
log_transaction(log, account_number, action, peer, amount, balance_after) ==
    IF ~log_writable THEN log ELSE
    Append(log, [account_number |-> account_number, action |-> action,
                 peer |-> peer, amount |-> amount,
                 balance_after |-> balance_after, timestamp |-> now])

\* read_transactions_for: rows of the account, most recent first; the limit
\* is tested after a row has been appended to the result.
RECURSIVE read_from(_, _, _, _, _)
read_from(log, account_number, limit, i, results) ==
    IF i = 0 THEN results
    ELSE IF log[i].account_number = account_number
         THEN LET r == Append(results, log[i])
              IN IF Len(r) >= limit THEN r
                 ELSE read_from(log, account_number, limit, i - 1, r)
         ELSE read_from(log, account_number, limit, i - 1, results)

read_transactions_for(log, account_number, limit) ==
    read_from(log, account_number, limit, Len(log), <<>>)

\* ------------------------------------------------------------------------
\* Member2Features (models/member2.py)
\* ------------------------------------------------------------------------

\* can_withdraw_without_violating_min
can_withdraw_without_violating_min(acc, amt, min_allowed) ==
    IF amt <= 0 THEN [ok |-> FALSE, err |-> "InvalidAmount"]
    ELSE IF acc.balance - amt < min_allowed
         THEN [ok |-> FALSE, err |-> "InsufficientFunds"]
    ELSE [ok |-> TRUE, err |-> "None"]

\* _daily_totals.get(key, 0.0)
daily_total(totals, key) == IF key \in DOMAIN totals THEN totals[key] ELSE 0

\* check_daily_limit comparing the amount alone with the limit: the running
\* total of the day is left out.
check_daily_limit_amount_only(totals, key, amount, daily_limit) ==
    ~(Abs(amount) > daily_limit)

\* check_daily_limit
check_daily_limit(totals, key, amount, daily_limit) ==
    ~(daily_total(totals, key) + Abs(amount) > daily_limit)

\* record_daily_txn
record_daily_txn(totals, key, amount) ==
    [k \in DOMAIN totals \cup {key} |->
        IF k = key THEN daily_total(totals, key) + Abs(amount) ELSE totals[k]]

\* Member2Features.transfer debiting the source before the status test: a
\* transfer refused for an inactive account keeps the debit.
Member2_transfer_debit_first(accs, log, from_acc_no, to_acc_no, amt, min_balance) ==
    IF from_acc_no \notin DOMAIN accs
    THEN [ok |-> FALSE, err |-> "AccountNotFound", accounts |-> accs, txlog |-> log]
    ELSE IF to_acc_no \notin DOMAIN accs
    THEN [ok |-> FALSE, err |-> "AccountNotFound", accounts |-> accs, txlog |-> log]
    ELSE IF accs[from_acc_no].balance - amt < min_balance
    THEN [ok |-> FALSE, err |-> "InsufficientFunds", accounts |-> accs, txlog |-> log]
    ELSE LET debited == [accs EXCEPT ![from_acc_no].balance = @ - amt]
             moved == [debited EXCEPT ![to_acc_no].balance = @ + amt]
             log1 == log_transaction(log, from_acc_no, <<"TRANSFER_OUT">>,
                                     to_acc_no, amt, moved[from_acc_no].balance)
             log2 == log_transaction(log1, to_acc_no, <<"TRANSFER_IN">>,
                                     from_acc_no, amt, moved[to_acc_no].balance)
         IN IF ~is_active(accs[from_acc_no]) \/ ~is_active(accs[to_acc_no])
            THEN [ok |-> FALSE, err |-> "AccountInactive",
                  accounts |-> debited, txlog |-> log]
            ELSE [ok |-> TRUE, err |-> "None", accounts |-> moved, txlog |-> log2]

\* Member2Features.transfer crediting the destination as it was before the
\* debit: a transfer from an account to itself ends with the credit alone.
Member2_transfer_stale_destination(accs, log, from_acc_no, to_acc_no, amt, min_balance) ==
    IF from_acc_no \notin DOMAIN accs
    THEN [ok |-> FALSE, err |-> "AccountNotFound", accounts |-> accs, txlog |-> log]
    ELSE IF to_acc_no \notin DOMAIN accs
    THEN [ok |-> FALSE, err |-> "AccountNotFound", accounts |-> accs, txlog |-> log]
    ELSE IF ~is_active(accs[from_acc_no]) \/ ~is_active(accs[to_acc_no])
    THEN [ok |-> FALSE, err |-> "AccountInactive", accounts |-> accs, txlog |-> log]
    ELSE IF accs[from_acc_no].balance - amt < min_balance
    THEN [ok |-> FALSE, err |-> "InsufficientFunds", accounts |-> accs, txlog |-> log]
    ELSE LET debited == [accs EXCEPT ![from_acc_no].balance = @ - amt]
             moved == [debited EXCEPT
                          ![to_acc_no].balance = accs[to_acc_no].balance + amt]
             log1 == log_transaction(log, from_acc_no, <<"TRANSFER_OUT">>,
                                     to_acc_no, amt, moved[from_acc_no].balance)
             log2 == log_transaction(log1, to_acc_no, <<"TRANSFER_IN">>,
                                     from_acc_no, amt, moved[to_acc_no].balance)
         IN [ok |-> TRUE, err |-> "None", accounts |-> moved, txlog |-> log2]

\* Member2Features.transfer, as BankingService.transfer calls it.
Member2_transfer(accs, log, from_acc_no, to_acc_no, amt, min_balance) ==
    IF from_acc_no \notin DOMAIN accs
    THEN [ok |-> FALSE, err |-> "AccountNotFound", accounts |-> accs, txlog |-> log]
    ELSE IF to_acc_no \notin DOMAIN accs
    THEN [ok |-> FALSE, err |-> "AccountNotFound", accounts |-> accs, txlog |-> log]
    ELSE IF ~is_active(accs[from_acc_no]) \/ ~is_active(accs[to_acc_no])
    THEN [ok |-> FALSE, err |-> "AccountInactive", accounts |-> accs, txlog |-> log]
    ELSE IF accs[from_acc_no].balance - amt < min_balance
    THEN [ok |-> FALSE, err |-> "InsufficientFunds", accounts |-> accs, txlog |-> log]
    ELSE LET debited == [accs EXCEPT ![from_acc_no].balance = @ - amt]
             moved == [debited EXCEPT ![to_acc_no].balance = @ + amt]
             log1 == log_transaction(log, from_acc_no, <<"TRANSFER_OUT">>,
                                     to_acc_no, amt, moved[from_acc_no].balance)
             log2 == log_transaction(log1, to_acc_no, <<"TRANSFER_IN">>,
                                     from_acc_no, amt, moved[to_acc_no].balance)
         IN [ok |-> TRUE, err |-> "None", accounts |-> moved, txlog |-> log2]

\* ------------------------------------------------------------------------
\* State
\* ------------------------------------------------------------------------

VARIABLES
    accounts,             \* BankingService.accounts: number -> Account
    next_account_number,  \* BankingService.next_account_number
    txlog,                \* rows of the transactions file, oldest first
    disk,                 \* rows of the accounts file, by account number
    daily_totals,         \* Member2Features._daily_totals: <<number, day>> -> total
    overdraft,            \* Member6Features.overdraft: number -> [limit, fee]
    locked_accounts,      \* Member6Features.locked_accounts
    scheduled_transfers,  \* Member6Features.scheduled_transfers
    recurring_payments,   \* Member6Features.recurring_payments
    last,                 \* the latest call and what it returned
    issued,               \* numbers create_account has handed out, in order
    history,              \* rows the latest transaction_history call returned
    beneficiaries,        \* Member6Features.beneficiaries: owner -> list
    statement,            \* rows of the file export_statement wrote last
    admin_hash            \* admin_password_hash of the admin file

vars == <<accounts, next_account_number, txlog, disk, daily_totals, overdraft,
          locked_accounts, scheduled_transfers, recurring_payments, now, last,
          issued, log_writable, history,
          beneficiaries, HAVE_BCRYPT,
                   statement, admin_hash>>

\* State the account, transfer and job operations leave alone.
other_vars == <<log_writable, history, beneficiaries, HAVE_BCRYPT,
                   statement, admin_hash>>

\* Variables owned by the member objects of one BankingService instance.
member_vars == <<daily_totals, overdraft, locked_accounts, scheduled_transfers,
                 recurring_payments>>

EmptyMap == [k \in {} |-> 0]

\* What the latest call returned: the operation, its success flag and, for a
\* failure, the kind of its message ("None" on success).
Result(op, ok, err) == [op |-> op, ok |-> ok, err |-> err, n |-> 0]

\* The (count, messages) pair the job runners return: n is the count.
Counted(op, n) == [op |-> op, ok |-> TRUE, err |-> "None", n |-> n]

\* BankingService.__init__ on an absent accounts file and transactions file.
Init ==
    /\ accounts = EmptyMap
    /\ next_account_number = START_ACCOUNT_NO
    /\ txlog = <<>>
    /\ disk = EmptyMap
    /\ daily_totals = EmptyMap
    /\ overdraft = EmptyMap
    /\ locked_accounts = {}
    /\ scheduled_transfers = <<>>
    /\ recurring_payments = <<>>
    /\ now = 0
    /\ last = Result("init", TRUE, "None")
    /\ issued = <<>>
    /\ log_writable = TRUE
    /\ history = <<>>
    /\ beneficiaries = EmptyMap
    /\ HAVE_BCRYPT = TRUE
    /\ statement = <<>>
    /\ admin_hash = NoPin

\* dict assignment d[k] = v
Put(d, k, v) == [x \in DOMAIN d \cup {k} |-> IF x = k THEN v ELSE d[x]]

\* ------------------------------------------------------------------------
\* BankingService.create_account
\* ------------------------------------------------------------------------

\* create_account taking the number before the opening-balance test: a
\* refused creation still moves next_account_number.
create_account_number_first(age, account_type, initial) ==
    IF age < MIN_AGE
    THEN [ok |-> FALSE, err |-> "Underage", accounts |-> accounts,
          txlog |-> txlog, next |-> next_account_number]
    ELSE IF Title(account_type) \notin DOMAIN MIN_BALANCE
    THEN [ok |-> FALSE, err |-> "InvalidType", accounts |-> accounts,
          txlog |-> txlog, next |-> next_account_number]
    ELSE IF initial < MIN_BALANCE[Title(account_type)]
    THEN [ok |-> FALSE, err |-> "BelowMinimumOpeningBalance",
          accounts |-> accounts, txlog |-> txlog,
          next |-> next_account_number + 1]
    ELSE LET acc == NewAccount(Title(account_type), initial, "Active")
         IN [ok |-> TRUE, err |-> "None",
             accounts |-> Put(accounts, next_account_number, acc),
             txlog |-> log_transaction(txlog, next_account_number, <<"CREATE">>,
                                       0, initial, acc.balance),
             next |-> next_account_number + 1]

create_account(age, account_type, initial) ==
    IF age < MIN_AGE
    THEN [ok |-> FALSE, err |-> "Underage", accounts |-> accounts,
          txlog |-> txlog, next |-> next_account_number]
    ELSE IF Title(account_type) \notin DOMAIN MIN_BALANCE
    THEN [ok |-> FALSE, err |-> "InvalidType", accounts |-> accounts,
          txlog |-> txlog, next |-> next_account_number]
    ELSE IF initial < MIN_BALANCE[Title(account_type)]
    THEN [ok |-> FALSE, err |-> "BelowMinimumOpeningBalance",
          accounts |-> accounts, txlog |-> txlog, next |-> next_account_number]
    ELSE LET acc == NewAccount(Title(account_type), initial, "Active")
         IN [ok |-> TRUE, err |-> "None",
             accounts |-> Put(accounts, next_account_number, acc),
             txlog |-> log_transaction(txlog, next_account_number, <<"CREATE">>,
                                       0, initial, acc.balance),
             next |-> next_account_number + 1]

CreateAccount(age, account_type, initial) ==
    LET r == create_account(age, account_type, initial)
    IN /\ Len(r.txlog) <= MaxLog
       /\ r.ok => next_account_number < START_ACCOUNT_NO + MaxAccounts
       /\ accounts' = r.accounts
       /\ txlog' = r.txlog
       /\ next_account_number' = r.next
       /\ issued' = IF r.ok THEN Append(issued, next_account_number) ELSE issued
       /\ last' = Result("create", r.ok, r.err)
       /\ UNCHANGED <<other_vars, disk, member_vars, now>>

\* ------------------------------------------------------------------------
\* BankingService.deposit
\* ------------------------------------------------------------------------

\* deposit treating a failed log write as a failed deposit: the balance
\* change is undone and an error is returned.
deposit_undo_on_log_failure(acc_no, amount, daily_limit) ==
    LET fail(e) == [ok |-> FALSE, err |-> e, accounts |-> accounts,
                    txlog |-> txlog, daily_totals |-> daily_totals]
    IN IF acc_no \notin DOMAIN accounts THEN fail("AccountNotFound")
       ELSE IF \E L \in daily_limit :
                  ~check_daily_limit(daily_totals, <<acc_no, now>>, amount, L)
       THEN fail("DailyLimitExceeded")
       ELSE LET d == Account_deposit(accounts[acc_no], amount)
            IN IF ~d.ok THEN fail(d.err)
               ELSE IF ~log_writable THEN fail("PersistenceError")
               ELSE [ok |-> TRUE, err |-> "None",
                     accounts |-> [accounts EXCEPT ![acc_no] = d.acc],
                     txlog |-> log_transaction(txlog, acc_no, <<"DEPOSIT">>, 0,
                                               amount, d.acc.balance),
                     daily_totals |-> record_daily_txn(daily_totals,
                                                       <<acc_no, now>>, amount)]

\* daily_limit is {} for None and {L} for a limit L.
deposit(acc_no, amount, daily_limit) ==
    LET fail(e) == [ok |-> FALSE, err |-> e, accounts |-> accounts,
                    txlog |-> txlog, daily_totals |-> daily_totals]
    IN IF acc_no \notin DOMAIN accounts THEN fail("AccountNotFound")
       ELSE IF \E L \in daily_limit :
                  ~check_daily_limit(daily_totals, <<acc_no, now>>, amount, L)
       THEN fail("DailyLimitExceeded")
       ELSE LET d == Account_deposit(accounts[acc_no], amount)
            IN IF ~d.ok THEN fail(d.err)
               ELSE [ok |-> TRUE, err |-> "None",
                     accounts |-> [accounts EXCEPT ![acc_no] = d.acc],
                     txlog |-> log_transaction(txlog, acc_no, <<"DEPOSIT">>, 0,
                                               amount, d.acc.balance),
                     daily_totals |-> record_daily_txn(daily_totals,
                                                       <<acc_no, now>>, amount)]

Deposit(acc_no, amount, daily_limit) ==
    LET r == deposit(acc_no, amount, daily_limit)
    IN /\ Len(r.txlog) <= MaxLog
       /\ accounts' = r.accounts
       /\ txlog' = r.txlog
       /\ daily_totals' = r.daily_totals
       /\ last' = Result("deposit", r.ok, r.err)
       /\ UNCHANGED <<other_vars, next_account_number, disk, overdraft, locked_accounts,
                      scheduled_transfers, recurring_payments, now, issued>>

\* ------------------------------------------------------------------------
\* BankingService.withdraw
\* ------------------------------------------------------------------------

withdraw(acc_no, amount, daily_limit) ==
    LET fail(e) == [ok |-> FALSE, err |-> e, accounts |-> accounts,
                    txlog |-> txlog, daily_totals |-> daily_totals]
    IN IF acc_no \notin DOMAIN accounts THEN fail("AccountNotFound")
       ELSE IF \E L \in daily_limit :
                  ~check_daily_limit(daily_totals, <<acc_no, now>>, amount, L)
       THEN fail("DailyLimitExceeded")
       ELSE
       LET acc == accounts[acc_no]
           helper == can_withdraw_without_violating_min(acc, amount,
                                                        MEMBER2_MIN_BALANCE)
           wd == Account_withdraw(acc, amount)
           projected == acc.balance - amount
       IN IF ~helper.ok
          THEN \* overdraft via member6.get_overdraft
               IF acc_no \in DOMAIN overdraft
                  /\ projected < 0
                  /\ Abs(projected) <= overdraft[acc_no].limit
               THEN IF wd.ok
                    THEN LET charged == Account_apply_overdraft_fee(
                                            wd.acc, overdraft[acc_no].fee)
                             log1 == log_transaction(txlog, acc_no,
                                         <<"OVERDRAFT_FEE">>, 0,
                                         overdraft[acc_no].fee, charged.balance)
                             log2 == log_transaction(log1, acc_no,
                                         <<"WITHDRAW">>, 0, amount,
                                         charged.balance)
                         IN [ok |-> TRUE, err |-> "None",
                             accounts |-> [accounts EXCEPT ![acc_no] = charged],
                             txlog |-> log2,
                             daily_totals |-> record_daily_txn(daily_totals,
                                                  <<acc_no, now>>, amount)]
                    ELSE fail(wd.err)
               ELSE fail(helper.err)
          ELSE IF ~wd.ok THEN fail(wd.err)
          ELSE [ok |-> TRUE, err |-> "None",
                accounts |-> [accounts EXCEPT ![acc_no] = wd.acc],
                txlog |-> log_transaction(txlog, acc_no, <<"WITHDRAW">>, 0,
                                          amount, wd.acc.balance),
                daily_totals |-> record_daily_txn(daily_totals,
                                                  <<acc_no, now>>, amount)]

Withdraw(acc_no, amount, daily_limit) ==
    LET r == withdraw(acc_no, amount, daily_limit)
    IN /\ Len(r.txlog) <= MaxLog
       /\ accounts' = r.accounts
       /\ txlog' = r.txlog
       /\ daily_totals' = r.daily_totals
       /\ last' = Result("withdraw", r.ok, r.err)
       /\ UNCHANGED <<other_vars, next_account_number, disk, overdraft, locked_accounts,
                      scheduled_transfers, recurring_payments, now, issued>>

\* ------------------------------------------------------------------------
\* BankingService.transfer
\* ------------------------------------------------------------------------

\* The first call variation, with min_balance 500 and log_func, is accepted
\* by Member2Features.transfer, so its result is returned.
transfer(accs, log, from_acc, to_acc, amount) ==
    Member2_transfer(accs, log, from_acc, to_acc, amount, MEMBER2_MIN_BALANCE)

Transfer(from_acc, to_acc, amount) ==
    LET r == transfer(accounts, txlog, from_acc, to_acc, amount)
    IN /\ Len(r.txlog) <= MaxLog
       /\ accounts' = r.accounts
       /\ txlog' = r.txlog
       /\ last' = Result("transfer", r.ok, r.err)
       /\ UNCHANGED <<other_vars, next_account_number, disk, member_vars, now, issued>>

\* BankingService.transaction_history -> Member2Features.transaction_history:
\* the rows of read_transactions_for_account, most recent first.
TransactionHistory(acc_no, limit) ==
    /\ history' = read_transactions_for(txlog, acc_no, limit)
    /\ last' = Counted("transaction_history", Len(history'))
    /\ UNCHANGED <<accounts, next_account_number, txlog, disk, member_vars,
                   now, issued, log_writable, beneficiaries, HAVE_BCRYPT,
                   statement, admin_hash>>

\* Account.transfer_to, called on accs[from_acc] with accs[to_acc] (the same
\* object when the numbers are equal).  An amount is a number or a text such
\* as "₹200,000": withdraw and deposit strip the sign and the commas before
\* float(), the rollback calls float(amount) on the raw value, which raises
\* on such a text, and the exception is logged and dropped.
Account_transfer_to(accs, from_acc, to_acc, amount) ==
    LET self == accs[from_acc]
        other == accs[to_acc]
        fail(e) == [ok |-> FALSE, err |-> e, accounts |-> accs]
    IN IF ~is_active(self) THEN fail("AccountInactive")
       ELSE IF ~is_active(other) THEN fail("AccountInactive")
       ELSE LET w == Account_withdraw(self, amount.value)
            IN IF ~w.ok THEN fail(w.err)
               ELSE LET debited == [accs EXCEPT ![from_acc] = w.acc]
                        d == Account_deposit(debited[to_acc], amount.value)
                    IN IF ~d.ok
                       THEN [ok |-> FALSE, err |-> d.err,
                             accounts |->
                                 IF amount.formatted THEN debited ELSE
                                 [debited EXCEPT
                                    ![from_acc].balance = @ + amount.value]]
                       ELSE [ok |-> TRUE, err |-> "None",
                             accounts |-> [debited EXCEPT ![to_acc] = d.acc]]

\* A caller holding two Account objects of the service.
TransferTo(from_acc, to_acc, amount) ==
    /\ from_acc \in DOMAIN accounts
    /\ to_acc \in DOMAIN accounts
    /\ LET r == Account_transfer_to(accounts, from_acc, to_acc, amount)
       IN /\ accounts' = r.accounts
          /\ last' = Result("transfer_to", r.ok, r.err)
    /\ UNCHANGED <<other_vars, next_account_number, txlog, disk, member_vars,
                   now, issued>>

\* BankingService.transfer without member2: both accounts must exist and be
\* active, Account.transfer_to moves the amount (a number), and the two rows
\* are written when it succeeded.
transfer_fallback(accs, log, from_acc, to_acc, amount) ==
    LET fail(e) == [ok |-> FALSE, err |-> e, accounts |-> accs, txlog |-> log]
    IN IF from_acc \notin DOMAIN accs THEN fail("AccountNotFound")
       ELSE IF to_acc \notin DOMAIN accs THEN fail("AccountNotFound")
       ELSE IF ~is_active(accs[from_acc]) THEN fail("AccountInactive")
       ELSE IF ~is_active(accs[to_acc]) THEN fail("AccountInactive")
       ELSE LET r == Account_transfer_to(accs, from_acc, to_acc,
                         [value |-> amount, formatted |-> FALSE])
                log1 == log_transaction(log, from_acc, <<"TRANSFER_OUT">>,
                            to_acc, amount, r.accounts[from_acc].balance)
                log2 == log_transaction(log1, to_acc, <<"TRANSFER_IN">>,
                            from_acc, amount, r.accounts[to_acc].balance)
            IN [ok |-> r.ok, err |-> r.err, accounts |-> r.accounts,
                txlog |-> IF r.ok THEN log2 ELSE log]

\* ------------------------------------------------------------------------
\* Statement export (Member6Features.export_statement)
\* ------------------------------------------------------------------------

\* The number of records export_statement asks the log for.
READ_LIMIT == 10000

\* reversed(rows)
RECURSIVE reversed(_)
reversed(rows) ==
    IF rows = <<>> THEN <<>>
    ELSE Append(reversed(Tail(rows)), Head(rows))

\* export_statement skipping a row whose time equals a bound ("<=" and ">="
\* for "<" and ">").
export_statement_exclusive(log, acc_no, start_date, end_date) ==
    LET rows == read_transactions_for(log, acc_no, READ_LIMIT)
        keep(r) == /\ \A s \in start_date : ~(r.timestamp <= s)
                   /\ \A e \in end_date : ~(r.timestamp >= e)
        filtered == SelectSeq(rows, keep)
    IN IF rows = <<>> THEN [ok |-> FALSE, err |-> "NoTransactions", rows |-> <<>>]
       ELSE IF filtered = <<>>
       THEN [ok |-> FALSE, err |-> "NoTransactionsInRange", rows |-> <<>>]
       ELSE [ok |-> TRUE, err |-> "None", rows |-> reversed(filtered)]

\* export_statement: start_date and end_date are {} for None and {t} for a
\* time t; the rows are those the file is written with, oldest first.
export_statement(log, acc_no, start_date, end_date) ==
    LET rows == read_transactions_for(log, acc_no, READ_LIMIT)
        keep(r) == /\ \A s \in start_date : ~(r.timestamp < s)
                   /\ \A e \in end_date : ~(r.timestamp > e)
        filtered == SelectSeq(rows, keep)
    IN IF rows = <<>> THEN [ok |-> FALSE, err |-> "NoTransactions", rows |-> <<>>]
       ELSE IF filtered = <<>>
       THEN [ok |-> FALSE, err |-> "NoTransactionsInRange", rows |-> <<>>]
       ELSE [ok |-> TRUE, err |-> "None", rows |-> reversed(filtered)]

\* The file is written only when there are rows to write.
ExportStatement(acc_no, start_date, end_date) ==
    LET r == export_statement(txlog, acc_no, start_date, end_date)
    IN /\ statement' = IF r.ok THEN r.rows ELSE statement
       /\ last' = Result("export_statement", r.ok, r.err)
       /\ UNCHANGED <<accounts, next_account_number, txlog, disk, member_vars,
                      now, issued, log_writable, history, beneficiaries,
                      HAVE_BCRYPT, admin_hash>>

\* ------------------------------------------------------------------------
\* PIN (BankingService.set_pin / check_pin)
\* ------------------------------------------------------------------------

SetPin(acc_no, pin) ==
    /\ IF acc_no \notin DOMAIN accounts
       THEN /\ accounts' = accounts
            /\ last' = Result("set_pin", FALSE, "AccountNotFound")
       ELSE LET r == Account_set_pin(accounts[acc_no], pin)
            IN /\ accounts' = [accounts EXCEPT ![acc_no] = r.acc]
               /\ last' = Result("set_pin", r.ok, r.err)
    /\ UNCHANGED <<other_vars, next_account_number, txlog, disk, member_vars,
                   now, issued>>

CheckPin(acc_no, pin) ==
    /\ last' = IF acc_no \notin DOMAIN accounts
               THEN Result("check_pin", FALSE, "AccountNotFound")
               ELSE IF Account_check_pin(accounts[acc_no], pin)
               THEN Result("check_pin", TRUE, "None")
               ELSE Result("check_pin", FALSE, "IncorrectPin")
    /\ UNCHANGED <<other_vars, accounts, next_account_number, txlog, disk,
                   member_vars, now, issued>>

\* "import bcrypt" raises when the process starts: the fallback is in force
\* from the first call on.
BcryptUnavailable ==
    /\ last.op = "init"
    /\ HAVE_BCRYPT
    /\ HAVE_BCRYPT' = FALSE
    /\ UNCHANGED <<accounts, next_account_number, txlog, disk, member_vars,
                   now, last, issued, log_writable, history, beneficiaries,
                   statement, admin_hash>>

\* ------------------------------------------------------------------------
\* Beneficiaries (Member6Features)
\* ------------------------------------------------------------------------

\* add_beneficiary without the "already added" test.
add_beneficiary_no_duplicate_test(acc_no, beneficiary_acc_no, nickname) ==
    IF beneficiary_acc_no \notin DOMAIN accounts
    THEN [ok |-> FALSE, err |-> "BeneficiaryNotFound",
          beneficiaries |-> beneficiaries]
    ELSE LET lst == IF acc_no \in DOMAIN beneficiaries
                    THEN beneficiaries[acc_no] ELSE <<>>
         IN [ok |-> TRUE, err |-> "None",
             beneficiaries |->
                 Put(beneficiaries, acc_no,
                     Append(lst, [acc |-> beneficiary_acc_no,
                                  nick |-> nickname]))]

\* add_beneficiary
add_beneficiary(acc_no, beneficiary_acc_no, nickname) ==
    IF beneficiary_acc_no \notin DOMAIN accounts
    THEN [ok |-> FALSE, err |-> "BeneficiaryNotFound",
          beneficiaries |-> beneficiaries]
    ELSE LET lst == IF acc_no \in DOMAIN beneficiaries
                    THEN beneficiaries[acc_no] ELSE <<>>
         IN IF \E i \in DOMAIN lst : lst[i].acc = beneficiary_acc_no
            THEN [ok |-> FALSE, err |-> "BeneficiaryExists",
                  beneficiaries |-> beneficiaries]
            ELSE [ok |-> TRUE, err |-> "None",
                  beneficiaries |->
                      Put(beneficiaries, acc_no,
                          Append(lst, [acc |-> beneficiary_acc_no,
                                       nick |-> nickname]))]

AddBeneficiary(acc_no, beneficiary_acc_no, nickname) ==
    LET r == add_beneficiary(acc_no, beneficiary_acc_no, nickname)
    IN /\ beneficiaries' = r.beneficiaries
       /\ last' = Result("add_beneficiary", r.ok, r.err)
       /\ UNCHANGED <<accounts, next_account_number, txlog, disk, member_vars,
                      now, issued, log_writable, history, HAVE_BCRYPT,
                   statement, admin_hash>>

\* The rows of lst whose account is not ben, in order.
RECURSIVE without(_, _)
without(lst, ben) ==
    IF lst = <<>> THEN <<>>
    ELSE IF Head(lst).acc = ben THEN without(Tail(lst), ben)
         ELSE <<Head(lst)>> \o without(Tail(lst), ben)

\* remove_beneficiary
remove_beneficiary(acc_no, beneficiary_acc_no) ==
    LET lst == IF acc_no \in DOMAIN beneficiaries
               THEN beneficiaries[acc_no] ELSE <<>>
        new == without(lst, beneficiary_acc_no)
    IN IF Len(new) = Len(lst)
       THEN [ok |-> FALSE, err |-> "BeneficiaryNotFound",
             beneficiaries |-> beneficiaries]
       ELSE [ok |-> TRUE, err |-> "None",
             beneficiaries |-> Put(beneficiaries, acc_no, new)]

RemoveBeneficiary(acc_no, beneficiary_acc_no) ==
    LET r == remove_beneficiary(acc_no, beneficiary_acc_no)
    IN /\ beneficiaries' = r.beneficiaries
       /\ last' = Result("remove_beneficiary", r.ok, r.err)
       /\ UNCHANGED <<accounts, next_account_number, txlog, disk, member_vars,
                      now, issued, log_writable, history, HAVE_BCRYPT,
                   statement, admin_hash>>

\* ------------------------------------------------------------------------
\* Overdraft policy and locks (Member6Features)
\* ------------------------------------------------------------------------

\* set_overdraft: stored for any account number, known or not.
SetOverdraft(acc_no, limit, fee) ==
    /\ overdraft' = Put(overdraft, acc_no, [limit |-> limit, fee |-> fee])
    /\ last' = Result("set_overdraft", TRUE, "None")
    /\ UNCHANGED <<other_vars, accounts, next_account_number, txlog, disk, daily_totals,
                   locked_accounts, scheduled_transfers, recurring_payments,
                   now, issued>>

\* Member1Features.upgrade_account_type: the account must exist and be
\* active, the new type must be a known one and differ from the present one;
\* the balance is not read.
upgrade_account_type(account_number, new_type) ==
    LET fail(e) == [ok |-> FALSE, err |-> e, accounts |-> accounts]
    IN IF account_number \notin DOMAIN accounts THEN fail("AccountNotFound")
       ELSE IF accounts[account_number].status # "Active"
       THEN fail("AccountInactive")
       ELSE IF Title(new_type) \notin DOMAIN MIN_BALANCE THEN fail("InvalidType")
       ELSE IF accounts[account_number].account_type = Title(new_type)
       THEN fail("AlreadyOfThisType")
       ELSE [ok |-> TRUE, err |-> "None",
             accounts |-> [accounts EXCEPT
                              ![account_number].account_type = Title(new_type)]]

\* Menu choice 10.
UpgradeAccountType(account_number, new_type) ==
    LET r == upgrade_account_type(account_number, new_type)
    IN /\ accounts' = r.accounts
       /\ last' = Result("upgrade_account_type", r.ok, r.err)
       /\ UNCHANGED <<other_vars, next_account_number, txlog, disk,
                      member_vars, now, issued>>

\* lock_account
LockAccount(acc_no) ==
    /\ locked_accounts' = locked_accounts \cup {acc_no}
    /\ last' = Result("lock", TRUE, "None")
    /\ UNCHANGED <<other_vars, accounts, next_account_number, txlog, disk, daily_totals,
                   overdraft, scheduled_transfers, recurring_payments, now,
                   issued>>

\* unlock_account
UnlockAccount(acc_no) ==
    /\ locked_accounts' = locked_accounts \ {acc_no}
    /\ last' = Result("unlock", TRUE, "None")
    /\ UNCHANGED <<other_vars, accounts, next_account_number, txlog, disk, daily_totals,
                   overdraft, scheduled_transfers, recurring_payments, now,
                   issued>>

\* ------------------------------------------------------------------------
\* Reversal (Member6Features.reverse_last_transaction)
\* ------------------------------------------------------------------------

\* reverse_last_transaction taking rows[-1] for rows[0]: the oldest record of
\* the account is reversed instead of the most recent one.
reverse_last_transaction_oldest(acc_no) ==
    LET fail(e) == [ok |-> FALSE, err |-> e, accounts |-> accounts,
                    txlog |-> txlog]
        rows == read_transactions_for(txlog, acc_no, 10000)
    IN IF rows = <<>> THEN fail("NoTransactions")
       ELSE IF acc_no \notin DOMAIN accounts THEN fail("AccountNotFound")
       ELSE
       LET row == rows[Len(rows)]
           acc == accounts[acc_no]
           reversal == <<"REVERSAL">> \o row.action
       IN IF Contains(row.action, "DEPOSIT") \/ Contains(row.action, "TRANSFER_IN")
          THEN LET wd == Account_withdraw(acc, row.amount)
               IN IF ~wd.ok THEN fail(wd.err)
                  ELSE [ok |-> TRUE, err |-> "None",
                        accounts |-> [accounts EXCEPT ![acc_no] = wd.acc],
                        txlog |-> log_transaction(txlog, acc_no, reversal,
                                      row.peer, -row.amount, wd.acc.balance)]
          ELSE IF Contains(row.action, "WITHDRAW")
                  \/ Contains(row.action, "TRANSFER_OUT")
          THEN LET d == Account_deposit(acc, row.amount)
               IN IF ~d.ok THEN fail(d.err)
                  ELSE [ok |-> TRUE, err |-> "None",
                        accounts |-> [accounts EXCEPT ![acc_no] = d.acc],
                        txlog |-> log_transaction(txlog, acc_no, reversal,
                                      row.peer, row.amount, d.acc.balance)]
          ELSE fail("NotReversible")

\* reverse_last_transaction recording the balance read before the
\* compensating withdrawal or deposit.
reverse_last_transaction_stale_balance(acc_no) ==
    LET fail(e) == [ok |-> FALSE, err |-> e, accounts |-> accounts,
                    txlog |-> txlog]
        rows == read_transactions_for(txlog, acc_no, 10000)
    IN IF rows = <<>> THEN fail("NoTransactions")
       ELSE IF acc_no \notin DOMAIN accounts THEN fail("AccountNotFound")
       ELSE
       LET row == rows[1]
           acc == accounts[acc_no]
           reversal == <<"REVERSAL">> \o row.action
       IN IF Contains(row.action, "DEPOSIT") \/ Contains(row.action, "TRANSFER_IN")
          THEN LET wd == Account_withdraw(acc, row.amount)
               IN IF ~wd.ok THEN fail(wd.err)
                  ELSE [ok |-> TRUE, err |-> "None",
                        accounts |-> [accounts EXCEPT ![acc_no] = wd.acc],
                        txlog |-> log_transaction(txlog, acc_no, reversal,
                                      row.peer, -row.amount, acc.balance)]
          ELSE IF Contains(row.action, "WITHDRAW")
                  \/ Contains(row.action, "TRANSFER_OUT")
          THEN LET d == Account_deposit(acc, row.amount)
               IN IF ~d.ok THEN fail(d.err)
                  ELSE [ok |-> TRUE, err |-> "None",
                        accounts |-> [accounts EXCEPT ![acc_no] = d.acc],
                        txlog |-> log_transaction(txlog, acc_no, reversal,
                                      row.peer, row.amount, acc.balance)]
          ELSE fail("NotReversible")
\* reverse_last_transaction undoing a transfer on both sides: the amount
\* goes back to, or is taken back from, the counterparty named in the record.
reverse_last_transaction_both_sides(acc_no) ==
    LET fail(e) == [ok |-> FALSE, err |-> e, accounts |-> accounts,
                    txlog |-> txlog]
        rows == read_transactions_for(txlog, acc_no, 10000)
    IN IF rows = <<>> THEN fail("NoTransactions")
       ELSE IF acc_no \notin DOMAIN accounts THEN fail("AccountNotFound")
       ELSE
       LET row == rows[1]
           acc == accounts[acc_no]
           reversal == <<"REVERSAL">> \o row.action
           undo(mine, back) ==
               IF row.peer \in DOMAIN accounts /\ row.peer # acc_no
               THEN [accounts EXCEPT ![acc_no] = mine,
                                     ![row.peer].balance = @ + back]
               ELSE [accounts EXCEPT ![acc_no] = mine]
       IN IF Contains(row.action, "DEPOSIT") \/ Contains(row.action, "TRANSFER_IN")
          THEN LET wd == Account_withdraw(acc, row.amount)
               IN IF ~wd.ok THEN fail(wd.err)
                  ELSE [ok |-> TRUE, err |-> "None",
                        accounts |-> undo(wd.acc, row.amount),
                        txlog |-> log_transaction(txlog, acc_no, reversal,
                                      row.peer, -row.amount, wd.acc.balance)]
          ELSE IF Contains(row.action, "WITHDRAW")
                  \/ Contains(row.action, "TRANSFER_OUT")
          THEN LET d == Account_deposit(acc, row.amount)
               IN IF ~d.ok THEN fail(d.err)
                  ELSE [ok |-> TRUE, err |-> "None",
                        accounts |-> undo(d.acc, -row.amount),
                        txlog |-> log_transaction(txlog, acc_no, reversal,
                                      row.peer, row.amount, d.acc.balance)]
          ELSE fail("NotReversible")
reverse_last_transaction(acc_no) ==
    LET fail(e) == [ok |-> FALSE, err |-> e, accounts |-> accounts,
                    txlog |-> txlog]
        rows == read_transactions_for(txlog, acc_no, 10000)
    IN IF rows = <<>> THEN fail("NoTransactions")
       ELSE IF acc_no \notin DOMAIN accounts THEN fail("AccountNotFound")
       ELSE
       LET row == rows[1]
           acc == accounts[acc_no]
           reversal == <<"REVERSAL">> \o row.action
       IN IF Contains(row.action, "DEPOSIT") \/ Contains(row.action, "TRANSFER_IN")
          THEN LET wd == Account_withdraw(acc, row.amount)
               IN IF ~wd.ok THEN fail(wd.err)
                  ELSE [ok |-> TRUE, err |-> "None",
                        accounts |-> [accounts EXCEPT ![acc_no] = wd.acc],
                        txlog |-> log_transaction(txlog, acc_no, reversal,
                                      row.peer, -row.amount, wd.acc.balance)]
          ELSE IF Contains(row.action, "WITHDRAW")
                  \/ Contains(row.action, "TRANSFER_OUT")
          THEN LET d == Account_deposit(acc, row.amount)
               IN IF ~d.ok THEN fail(d.err)
                  ELSE [ok |-> TRUE, err |-> "None",
                        accounts |-> [accounts EXCEPT ![acc_no] = d.acc],
                        txlog |-> log_transaction(txlog, acc_no, reversal,
                                      row.peer, row.amount, d.acc.balance)]
          ELSE fail("NotReversible")

ReverseLast(acc_no) ==
    LET r == reverse_last_transaction(acc_no)
    IN /\ Len(r.txlog) <= MaxLog
       /\ accounts' = r.accounts
       /\ txlog' = r.txlog
       /\ last' = Result("reverse", r.ok, r.err)
       /\ UNCHANGED <<other_vars, next_account_number, disk, member_vars, now, issued>>

\* ------------------------------------------------------------------------
\* Scheduled and recurring transfers (Member6Features)
\* ------------------------------------------------------------------------

\* schedule_transfer
\* schedule_transfer carrying out at once a job that is already due.
ScheduleTransfer_eager(from_acc, to_acc, amount, execute_at) ==
    LET ok == from_acc \in DOMAIN accounts /\ to_acc \in DOMAIN accounts
        r == IF ok /\ execute_at <= now
             THEN transfer(accounts, txlog, from_acc, to_acc, amount)
             ELSE [accounts |-> accounts, txlog |-> txlog]
    IN /\ Len(scheduled_transfers) + Len(recurring_payments) < MaxJobs
       /\ Len(r.txlog) <= MaxLog
       /\ accounts' = r.accounts
       /\ txlog' = r.txlog
       /\ scheduled_transfers' =
              IF ok /\ execute_at > now
              THEN Append(scheduled_transfers,
                          [from |-> from_acc, to |-> to_acc,
                           amount |-> amount, execute_at |-> execute_at])
              ELSE scheduled_transfers
       /\ last' = Result("schedule_transfer", ok,
                         IF ok THEN "None" ELSE "AccountNotFound")
       /\ UNCHANGED <<other_vars, next_account_number, disk, daily_totals,
                      overdraft, locked_accounts, recurring_payments, now,
                      issued>>

\* schedule_transfer: the job is appended; nothing is transferred.
ScheduleTransfer(from_acc, to_acc, amount, execute_at) ==
    LET ok == from_acc \in DOMAIN accounts /\ to_acc \in DOMAIN accounts
    IN /\ Len(scheduled_transfers) + Len(recurring_payments) < MaxJobs
       /\ scheduled_transfers' =
              IF ok THEN Append(scheduled_transfers,
                                [from |-> from_acc, to |-> to_acc,
                                 amount |-> amount, execute_at |-> execute_at])
              ELSE scheduled_transfers
       /\ last' = Result("schedule_transfer", ok,
                         IF ok THEN "None" ELSE "AccountNotFound")
       /\ UNCHANGED <<other_vars, accounts, next_account_number, txlog, disk, daily_totals,
                      overdraft, locked_accounts, recurring_payments, now,
                      issued>>

\* The loop of run_due_scheduled_transfers keeping a due job whose transfer
\* failed: the job stays pending and is tried again by the next call.
RECURSIVE run_scheduled_retry(_, _, _, _, _, _, _)
run_scheduled_retry(jobs, i, t, accs, log, remaining, executed) ==
    IF i > Len(jobs)
    THEN [accounts |-> accs, txlog |-> log, remaining |-> remaining,
          executed |-> executed]
    ELSE IF jobs[i].execute_at <= t
    THEN LET r == transfer(accs, log, jobs[i].from, jobs[i].to, jobs[i].amount)
         IN run_scheduled_retry(jobs, i + 1, t, r.accounts, r.txlog,
                IF r.ok THEN remaining ELSE Append(remaining, jobs[i]),
                executed + 1)
    ELSE run_scheduled_retry(jobs, i + 1, t, accs, log,
                             Append(remaining, jobs[i]), executed)

\* The loop of run_due_scheduled_transfers from job i on: due jobs are
\* transferred and dropped, the others are kept in order.
RECURSIVE run_scheduled(_, _, _, _, _, _, _)
run_scheduled(jobs, i, t, accs, log, remaining, executed) ==
    IF i > Len(jobs)
    THEN [accounts |-> accs, txlog |-> log, remaining |-> remaining,
          executed |-> executed]
    ELSE IF jobs[i].execute_at <= t
    THEN LET r == transfer(accs, log, jobs[i].from, jobs[i].to, jobs[i].amount)
         IN run_scheduled(jobs, i + 1, t, r.accounts, r.txlog, remaining,
                          executed + 1)
    ELSE run_scheduled(jobs, i + 1, t, accs, log,
                       Append(remaining, jobs[i]), executed)

\* BankingService.run_due_scheduled_transfers: now is datetime.now().
RunDueScheduled ==
    LET r == run_scheduled(scheduled_transfers, 1, now, accounts, txlog, <<>>, 0)
    IN /\ Len(r.txlog) <= MaxLog
       /\ accounts' = r.accounts
       /\ txlog' = r.txlog
       /\ scheduled_transfers' = r.remaining
       /\ last' = Counted("run_due_scheduled", r.executed)
       /\ UNCHANGED <<other_vars, next_account_number, disk, daily_totals, overdraft,
                      locked_accounts, recurring_payments, now, issued>>

\* add_recurring: next_run is start_date.
AddRecurring(from_acc, to_acc, amount, interval_days, start_date) ==
    LET ok == from_acc \in DOMAIN accounts /\ to_acc \in DOMAIN accounts
    IN /\ Len(scheduled_transfers) + Len(recurring_payments) < MaxJobs
       /\ recurring_payments' =
              IF ok THEN Append(recurring_payments,
                                [from |-> from_acc, to |-> to_acc,
                                 amount |-> amount,
                                 interval_days |-> interval_days,
                                 next_run |-> start_date])
              ELSE recurring_payments
       /\ last' = Result("add_recurring", ok,
                         IF ok THEN "None" ELSE "AccountNotFound")
       /\ UNCHANGED <<other_vars, accounts, next_account_number, txlog, disk, daily_totals,
                      overdraft, locked_accounts, scheduled_transfers, now,
                      issued>>

\* The loop of run_due_recurring moving next_run only after a transfer that
\* succeeded: a refused job stays due.
RECURSIVE run_recurring_on_success(_, _, _, _, _, _)
run_recurring_on_success(jobs, i, t, accs, log, executed) ==
    IF i > Len(jobs)
    THEN [accounts |-> accs, txlog |-> log, jobs |-> jobs, executed |-> executed]
    ELSE IF jobs[i].next_run <= t
    THEN LET r == transfer(accs, log, jobs[i].from, jobs[i].to, jobs[i].amount)
         IN run_recurring_on_success(
                IF r.ok
                THEN [jobs EXCEPT ![i].next_run = @ + jobs[i].interval_days]
                ELSE jobs,
                i + 1, t, r.accounts, r.txlog, executed + 1)
    ELSE run_recurring_on_success(jobs, i + 1, t, accs, log, executed)

\* The loop of run_due_recurring from job i on: a due job is transferred
\* once and its next_run moved by interval_days.
RECURSIVE run_recurring(_, _, _, _, _, _)
run_recurring(jobs, i, t, accs, log, executed) ==
    IF i > Len(jobs)
    THEN [accounts |-> accs, txlog |-> log, jobs |-> jobs, executed |-> executed]
    ELSE IF jobs[i].next_run <= t
    THEN LET r == transfer(accs, log, jobs[i].from, jobs[i].to, jobs[i].amount)
         IN run_recurring(
                [jobs EXCEPT ![i].next_run = @ + jobs[i].interval_days],
                i + 1, t, r.accounts, r.txlog, executed + 1)
    ELSE run_recurring(jobs, i + 1, t, accs, log, executed)

\* Member6Features.run_due_recurring(banking_service, now)
RunDueRecurring ==
    LET r == run_recurring(recurring_payments, 1, now, accounts, txlog, 0)
    IN /\ Len(r.txlog) <= MaxLog
       /\ accounts' = r.accounts
       /\ txlog' = r.txlog
       /\ recurring_payments' = r.jobs
       /\ last' = Counted("run_due_recurring", r.executed)
       /\ UNCHANGED <<other_vars, next_account_number, disk, daily_totals, overdraft,
                      locked_accounts, scheduled_transfers, now, issued>>

\* list_scheduled_transfers: a sorted copy; list_recurring: the list itself.
ListScheduled ==
    /\ last' = Counted("list_scheduled_transfers", Len(scheduled_transfers))
    /\ UNCHANGED <<other_vars, accounts, next_account_number, txlog, disk,
                   member_vars, now, issued>>

ListRecurring ==
    /\ last' = Counted("list_recurring", Len(recurring_payments))
    /\ UNCHANGED <<other_vars, accounts, next_account_number, txlog, disk,
                   member_vars, now, issued>>

\* list.pop(index): index i >= 0 names the job i + 1 of the sequence, a
\* negative index counts from the end, anything else raises IndexError.
pop(lst, index) ==
    LET at == IF index >= 0 THEN index + 1 ELSE Len(lst) + index + 1
    IN IF at \in DOMAIN lst
       THEN [ok |-> TRUE, lst |-> SubSeq(lst, 1, at - 1)
                                   \o SubSeq(lst, at + 1, Len(lst))]
       ELSE [ok |-> FALSE, lst |-> lst]

\* cancel_recurring
CancelRecurring(index) ==
    LET r == pop(recurring_payments, index)
    IN /\ recurring_payments' = r.lst
       /\ last' = Result("cancel_recurring", r.ok,
                         IF r.ok THEN "None" ELSE "InvalidIndex")
       /\ UNCHANGED <<other_vars, accounts, next_account_number, txlog, disk,
                      daily_totals, overdraft, locked_accounts,
                      scheduled_transfers, now, issued>>

\* main, menu choice 31: bank.run_due_scheduled_transfers() runs the due
\* one-shot jobs, then bank.run_due_recurring() raises AttributeError, as
\* BankingService defines no such method; nothing catches it, main() ends.
RunDueTasks ==
    LET r == run_scheduled(scheduled_transfers, 1, now, accounts, txlog, <<>>, 0)
    IN /\ Len(r.txlog) <= MaxLog
       /\ accounts' = r.accounts
       /\ txlog' = r.txlog
       /\ scheduled_transfers' = r.remaining
       /\ last' = Result("run_due_tasks", FALSE, "AttributeError")
       /\ UNCHANGED <<other_vars, next_account_number, disk, daily_totals,
                      overdraft, locked_accounts, recurring_payments, now,
                      issued>>

\* The process has not been ended by an uncaught exception.
Running == last.err # "AttributeError"

\* Time passes.
Tick ==
    /\ now < MaxTime
    /\ now' = now + 1
    /\ last' = Result("tick", TRUE, "None")
    /\ UNCHANGED <<other_vars, accounts, next_account_number, txlog, disk, member_vars,
                   issued>>

\* ------------------------------------------------------------------------
\* Delete-all, import, and the accounts file
\* ------------------------------------------------------------------------

\* BankingService.delete_all_accounts: Member4Features.delete_all_accounts
\* clears the dict; nothing is written to the accounts file.
DeleteAll(admin) ==
    /\ accounts' = IF admin THEN EmptyMap ELSE accounts
    /\ last' = Result("delete_all", admin,
                      IF admin THEN "None" ELSE "AdminRequired")
    /\ UNCHANGED <<other_vars, next_account_number, txlog, disk, member_vars, now, issued>>

\* verify_admin_password: False without bcrypt or without a stored hash,
\* otherwise bcrypt.checkpw of the password against the stored hash.
verify_admin_password(plain_password) ==
    IF ~HAVE_BCRYPT THEN FALSE
    ELSE IF admin_hash = NoPin THEN FALSE
    ELSE admin_hash.kind = "bcrypt" /\ admin_hash.text = plain_password

\* Menu choice 20 deleting the accounts in the request that sets the
\* password.
MenuDeleteAll_delete_after_setting(pwd, confirm) ==
    IF admin_hash = NoPin
    THEN IF pwd # confirm \/ Len(pwd) < 6
         THEN /\ last' = Result("admin_delete_all", FALSE, "Aborted")
              /\ UNCHANGED <<accounts, next_account_number, txlog, disk,
                             member_vars, now, issued, other_vars>>
         ELSE IF ~HAVE_BCRYPT
         THEN /\ last' = Result("admin_delete_all", FALSE, "SetFailed")
              /\ UNCHANGED <<accounts, next_account_number, txlog, disk,
                             member_vars, now, issued, other_vars>>
         ELSE /\ admin_hash' = HashedPin(pwd)
              /\ accounts' = EmptyMap
              /\ last' = Result("delete_all", TRUE, "None")
              /\ UNCHANGED <<next_account_number, txlog, disk, member_vars,
                             now, issued, log_writable, history,
                             beneficiaries, HAVE_BCRYPT, statement>>
    ELSE IF ~verify_admin_password(pwd)
    THEN /\ last' = Result("admin_delete_all", FALSE, "AuthFailed")
         /\ UNCHANGED <<accounts, next_account_number, txlog, disk,
                        member_vars, now, issued, other_vars>>
    ELSE DeleteAll(TRUE)

\* Menu choice 20.  Without a stored hash the request asks for a new password
\* twice, stores its hash (set_admin_password) and ends; with one it asks for
\* the password and deletes the accounts when verify_admin_password accepts.
MenuDeleteAll(pwd, confirm) ==
    IF admin_hash = NoPin
    THEN IF pwd # confirm \/ Len(pwd) < 6
         THEN /\ last' = Result("admin_delete_all", FALSE, "Aborted")
              /\ UNCHANGED <<accounts, next_account_number, txlog, disk,
                             member_vars, now, issued, other_vars>>
         ELSE IF ~HAVE_BCRYPT
         THEN /\ last' = Result("admin_delete_all", FALSE, "SetFailed")
              /\ UNCHANGED <<accounts, next_account_number, txlog, disk,
                             member_vars, now, issued, other_vars>>
         ELSE /\ admin_hash' = HashedPin(pwd)
              /\ last' = Result("admin_delete_all", FALSE, "PasswordSet")
              /\ UNCHANGED <<accounts, next_account_number, txlog, disk,
                             member_vars, now, issued, log_writable, history,
                             beneficiaries, HAVE_BCRYPT, statement>>
    ELSE IF ~verify_admin_password(pwd)
    THEN /\ last' = Result("admin_delete_all", FALSE, "AuthFailed")
         /\ UNCHANGED <<accounts, next_account_number, txlog, disk,
                        member_vars, now, issued, other_vars>>
    ELSE DeleteAll(TRUE)

\* Member4Features.import_from_csv on a file holding the one row given:
\* the row's Account is stored under the row's number.
ImportAccounts(row) ==
    /\ accounts' = Put(accounts, row.account_number,
                       NewAccount(row.account_type, row.balance, row.status))
    /\ last' = Result("import", TRUE, "None")
    /\ UNCHANGED <<other_vars, next_account_number, txlog, disk, member_vars, now, issued>>

\* f"{balance:.2f}": the balance in hundredths of a rupee, nearest value.
\* (Balances of the model never lie halfway between two hundredths.)
Format2(balance) == (balance + 5) \div 10

\* float(text) of a two-decimal text.
Parse2(hundredths) == hundredths * 10

\* Account.to_dict writing f"{balance:.1f}" for f"{balance:.2f}": the text
\* keeps one decimal.
to_dict_one_decimal(acc_no, acc) ==
    [account_number |-> acc_no, account_type |-> acc.account_type,
     balance |-> ((acc.balance + 50) \div 100) * 10, status |-> acc.status,
     pin |-> acc.pin]

\* Account.to_dict, the columns the model keeps.
to_dict(acc_no, acc) ==
    [account_number |-> acc_no, account_type |-> acc.account_type,
     balance |-> Format2(acc.balance), status |-> acc.status,
     pin |-> acc.pin]

\* save_accounts: the file is rewritten in full.
save_accounts(accs) == [n \in DOMAIN accs |-> to_dict(n, accs[n])]

\* load_accounts with Account.from_dict: one Account per row.
\* (__post_init__ keeps a stored hash, keeps any pin when bcrypt is missing
\* and hashes a pin found as plain text.)
load_accounts(file) ==
    [n \in DOMAIN file |->
        [NewAccount(file[n].account_type, Parse2(file[n].balance),
                    file[n].status)
         EXCEPT !.pin = IF file[n].pin.kind = "plain" /\ HAVE_BCRYPT
                        THEN HashedPin(file[n].pin.text)
                        ELSE file[n].pin]]

\* BankingService.save_to_disk
Save ==
    /\ disk' = save_accounts(accounts)
    /\ last' = Result("save", TRUE, "None")
    /\ UNCHANGED <<other_vars, accounts, next_account_number, txlog, member_vars, now,
                   issued>>

\* A new BankingService: accounts come from the file, the next number is
\* max(keys) + 1 or START_ACCOUNT_NO, and the member objects are fresh.  The
\* transactions file is kept.
Reload ==
    /\ accounts' = load_accounts(disk)
    /\ next_account_number' =
           IF DOMAIN disk # {} THEN SetMax(DOMAIN disk) + 1
           ELSE START_ACCOUNT_NO
    /\ daily_totals' = EmptyMap
    /\ overdraft' = EmptyMap
    /\ locked_accounts' = {}
    /\ scheduled_transfers' = <<>>
    /\ recurring_payments' = <<>>
    /\ last' = Result("reload", TRUE, "None")
    /\ beneficiaries' = EmptyMap
    /\ UNCHANGED <<log_writable, history, HAVE_BCRYPT, statement, admin_hash,
                   txlog, disk, now, issued>>

\* ------------------------------------------------------------------------
\* Inputs
\* ------------------------------------------------------------------------

\* Numbers create_account can hand out within the bound.  An operation on a
\* number not created or imported yet is an operation on an unknown account.
AccNos == START_ACCOUNT_NO .. (START_ACCOUNT_NO + MaxAccounts - 1)

Ages == {17, 18}
TypeInputs == {"Savings", "current", "Gold"}
OpeningAmounts == {Rs(400), Rs(500), Rs(1000)}
DepositAmounts == {0, Rs(200), Rs(100001)}
WithdrawAmounts == {0, Rs(100), Rs(250)}
TransferAmounts == {Rs(-1000), Rs(100), Rs(1000)}
OverdraftPolicies == {[limit |-> Rs(200), fee |-> Rs(10)]}
NoLimit == {}
ImportBalances == {Rs(100), Rs(600)}
ImportStatuses == {"Active", "inactive"}
ImportRows(balances, statuses) ==
    [account_number : AccNos, account_type : {"Savings"},
     balance : balances, status : statuses]
Times == 0 .. MaxTime
FrozenAmounts == {Rs(100)}
\* Amounts with a fraction of a paisa: 200.004 and 100.006 rupees.
SubPaisaDeposit == 200004
SubPaisaBalance == 100006

\* ------------------------------------------------------------------------
\* Steps, by operation
\* ------------------------------------------------------------------------

DoCreateOf(ages, types, amounts) ==
    \E age \in ages, t \in types, a \in amounts : CreateAccount(age, t, a)

DoCreate == DoCreateOf(Ages, TypeInputs, OpeningAmounts)

DoDeposit(amounts) == \E n \in AccNos, a \in amounts : Deposit(n, a, NoLimit)

DoWithdraw(amounts) == \E n \in AccNos, a \in amounts : Withdraw(n, a, NoLimit)

DoTransferOf(amounts) ==
    \E f \in AccNos, t \in AccNos, a \in amounts : Transfer(f, t, a)

DoTransfer == DoTransferOf(TransferAmounts)

\* The limits a caller passes to transaction_history.
Limits == 0 .. MaxLog

DoHistory == \E n \in AccNos, limit \in Limits : TransactionHistory(n, limit)

Nicknames == {"home"}

DoAddBeneficiary ==
    \E n \in AccNos, ben \in AccNos, nick \in Nicknames :
        AddBeneficiary(n, ben, nick)

DoRemoveBeneficiary ==
    \E n \in AccNos, ben \in AccNos : RemoveBeneficiary(n, ben)

\* PINs as digit sequences: one too short and two of four digits.
Pins == {<<1, 2, 3>>, <<1, 2, 3, 4>>, <<4, 3, 2, 1>>}

DoSetPin == \E n \in AccNos, p \in Pins : SetPin(n, p)

DoCheckPin == \E n \in AccNos, p \in Pins : CheckPin(n, p)

\* Bounds of a statement: none, or a time.
DateBounds == {{}} \cup {{t} : t \in Times}

\* Statements are asked for the first account and for the one after it.
StatementAccounts == {START_ACCOUNT_NO, START_ACCOUNT_NO + 1}

DoExportStatement ==
    \E n \in StatementAccounts, s \in DateBounds, e \in DateBounds :
        ExportStatement(n, s, e)

\* Amounts for Account.transfer_to: the cap itself and twice the cap, as a
\* number and as a text with a currency sign and commas.
TransferToAmounts ==
    [value : {Rs(100000), Rs(200000)}, formatted : BOOLEAN]

DoTransferTo ==
    \E f \in AccNos, t \in AccNos, amount \in TransferToAmounts :
        TransferTo(f, t, amount)

\* Deposits and withdrawals that keep an account's running total of the day
\* within MaxDaily rupees.
DoDepositCapped(amounts) ==
    \E n \in AccNos, a \in amounts :
        /\ daily_total(daily_totals, <<n, now>>) + a <= Rs(MaxDaily)
        /\ Deposit(n, a, NoLimit)

DoWithdrawCapped(amounts) ==
    \E n \in AccNos, a \in amounts :
        /\ daily_total(daily_totals, <<n, now>>) + a <= Rs(MaxDaily)
        /\ Withdraw(n, a, NoLimit)

\* A transfer between two given accounts.
DoTransferBetween(f, t, amounts) == \E a \in amounts : Transfer(f, t, a)

\* The transactions file becomes unwritable before its first row is written
\* (open(TRANSACTIONS_FILE, "a") raises from then on).
LogBecomesUnwritable ==
    /\ log_writable
    /\ txlog = <<>>
    /\ log_writable' = FALSE
    /\ UNCHANGED <<accounts, next_account_number, txlog, disk, member_vars,
                   now, last, issued, history, beneficiaries,
                   HAVE_BCRYPT,
                   statement, admin_hash>>

DoSetOverdraft(nos) ==
    \E n \in nos, p \in OverdraftPolicies : SetOverdraft(n, p.limit, p.fee)

\* An imported file names one account that the ledger does not hold yet.
DoImport(balances, statuses) ==
    \E row \in ImportRows(balances, statuses) :
        /\ row.account_number \notin DOMAIN accounts
        /\ ImportAccounts(row)

\* An imported file names one account, held already or not: the row replaces
\* the account stored under its number.
DoImportOver(balances, statuses) ==
    \E row \in ImportRows(balances, statuses) : ImportAccounts(row)

\* Jobs from the first account to the second, one amount the transfer
\* accepts and one it refuses.
JobAmounts == {Rs(100), Rs(1000)}

DoScheduleOf(amounts) ==
    \E a \in amounts, at \in Times :
        ScheduleTransfer(START_ACCOUNT_NO, START_ACCOUNT_NO + 1, a, at)

DoSchedule == DoScheduleOf(JobAmounts)

DoAddRecurringOf(amounts) ==
    \E a \in amounts, at \in Times :
        AddRecurring(START_ACCOUNT_NO, START_ACCOUNT_NO + 1, a, 1, at)

DoAddRecurring == DoAddRecurringOf(JobAmounts)

\* int(input("Interval days: ")): any integer, here a negative one, zero and
\* a positive one.
Intervals == {-1, 0, 1}

DoAddRecurringEvery ==
    \E a \in JobAmounts, k \in Intervals :
        AddRecurring(START_ACCOUNT_NO, START_ACCOUNT_NO + 1, a, k, 0)

\* run_due_recurring while no nextRun has moved further back than MaxTime
\* days before time 0.
RunDueRecurringNear ==
    /\ RunDueRecurring
    /\ \A i \in DOMAIN recurring_payments' :
          recurring_payments'[i].next_run >= -MaxTime

\* Indices a caller gives to cancel_recurring: the first job, the last job
\* counted from the end, and one past the longest list.
DoCancelRecurring == \E index \in {-1, 0, MaxJobs} : CancelRecurring(index)

\* Deposits and withdrawals made with a daily limit.
DailyLimit == Rs(300)

DoDepositLimited(amounts) ==
    \E n \in AccNos, a \in amounts : Deposit(n, a, {DailyLimit})

DoWithdrawLimited(amounts) ==
    \E n \in AccNos, a \in amounts : Withdraw(n, a, {DailyLimit})

DoLock == \E n \in AccNos : LockAccount(n)

DoUnlock == \E n \in AccNos : UnlockAccount(n)

DoReverse == \E n \in AccNos : ReverseLast(n)

DoUpgrade == \E n \in AccNos, t \in TypeInputs : UpgradeAccountType(n, t)

DoDeleteAll == \E admin \in BOOLEAN : DeleteAll(admin)

\* Passwords typed at menu choice 20: one of five characters, two of six.
AdminPasswords == {<<1, 2, 3, 4, 5>>, <<1, 2, 3, 4, 5, 6>>, <<6, 5, 4, 3, 2, 1>>}

DoMenuDeleteAll ==
    \E pwd \in AdminPasswords, confirm \in AdminPasswords :
        MenuDeleteAll(pwd, confirm)

\* ------------------------------------------------------------------------
\* Specifications
\* ------------------------------------------------------------------------

\* The ledger operations on accounts made by create_account.
NextLedger ==
    \/ DoCreate
    \/ DoDeposit(DepositAmounts)
    \/ DoWithdraw(WithdrawAmounts)
    \/ DoTransfer
    \/ DoSetOverdraft(AccNos)

SpecLedger == Init /\ [][NextLedger]_vars

\* The ledger operations on created and imported accounts.
NextDeposit ==
    \/ DoCreate
    \/ DoDeposit(DepositAmounts)
    \/ DoImport({Rs(100)}, ImportStatuses)

SpecDeposit == Init /\ [][NextDeposit]_vars

NextWithdraw ==
    \/ DoCreateOf({MIN_AGE}, {"Savings", "current"}, {Rs(500), Rs(1000)})
    \/ DoDeposit({Rs(200)})
    \/ DoWithdraw({0, Rs(100)})
    \/ DoSetOverdraft({START_ACCOUNT_NO})
    \/ DoImport({Rs(100)}, {"inactive"})

SpecWithdraw == Init /\ [][NextWithdraw]_vars

\* Withdrawals from accounts with an overdraft policy.
NextOverdraft ==
    \/ DoCreate
    \/ DoWithdraw(WithdrawAmounts)
    \/ DoSetOverdraft(AccNos)
    \/ DoImport({Rs(100)}, ImportStatuses)

SpecOverdraft == Init /\ [][NextOverdraft]_vars

NextTransfer ==
    \/ DoCreateOf({MIN_AGE}, {"Savings", "current"}, {Rs(1000)})
    \/ DoTransferOf({Rs(100), Rs(1000)})
    \/ DoImport(ImportBalances, ImportStatuses)

SpecTransfer == Init /\ [][NextTransfer]_vars

\* The ledger operations with locks.
NextLock ==
    \/ DoCreate
    \/ DoLock
    \/ DoUnlock
    \/ DoDeposit({Rs(200)})
    \/ DoWithdraw({Rs(100)})
    \/ DoTransfer

SpecLock == Init /\ [][NextLock]_vars

\* Account numbers over deletions and restarts.
NextAlloc ==
    \/ DoCreate
    \/ DoDeleteAll
    \/ Save
    \/ Reload

SpecAlloc == Init /\ [][NextAlloc]_vars

\* Every operation that runs while the transactions file exists.
Next ==
    \/ CreateAccount(18, "Savings", Rs(1000))
    \/ Deposit(START_ACCOUNT_NO, Rs(200), NoLimit)
    \/ Withdraw(START_ACCOUNT_NO, Rs(100), NoLimit)
    \/ \E f \in AccNos, t \in AccNos : Transfer(f, t, Rs(100))
    \/ DoReverse
    \/ \E at \in {now, now + 1} :
           ScheduleTransfer(START_ACCOUNT_NO, START_ACCOUNT_NO + 1, Rs(100), at)
    \/ RunDueScheduled
    \/ AddRecurring(START_ACCOUNT_NO, START_ACCOUNT_NO + 1, Rs(100), 1, now)
    \/ RunDueRecurring
    \/ DoDeleteAll

Spec == Init /\ [][Next]_vars

\* Account opening, with every kind of refusal.
NextCreate ==
    \/ DoCreate
    \/ DoDeleteAll
    \/ DoLock

SpecCreate == Init /\ [][NextCreate]_vars

\* Reversals after deposits, withdrawals and transfers.
NextReverse ==
    \/ DoCreateOf({MIN_AGE}, {"Savings", "current"}, {Rs(1000)})
    \/ DoDeposit({Rs(200)})
    \/ DoWithdraw({Rs(100)})
    \/ DoTransferOf({Rs(100)})
    \/ DoReverse

SpecReverse == Init /\ [][NextReverse]_vars

\* Scheduled transfers and the passing of time.
NextScheduled ==
    \/ DoCreateOf({MIN_AGE}, {"Savings"}, {Rs(1000)})
    \/ DoSchedule
    \/ RunDueScheduled
    \/ Tick

SpecScheduled == Init /\ [][NextScheduled]_vars

\* Recurring transfers and the passing of time.
NextRecurring ==
    \/ DoCreateOf({MIN_AGE}, {"Savings"}, {Rs(1000)})
    \/ DoAddRecurring
    \/ RunDueRecurring
    \/ Tick

SpecRecurring == Init /\ [][NextRecurring]_vars

\* Every deposit and withdrawal supplies the daily limit; days pass.
NextDaily ==
    \/ DoCreateOf({MIN_AGE}, {"Savings"}, {Rs(1000)})
    \/ DoDepositLimited({0, Rs(200)})
    \/ DoWithdrawLimited({Rs(100), Rs(1000)})
    \/ Tick

SpecDaily == Init /\ [][NextDaily]_vars

\* Inactive accounts, which only an import or a reload brings in.
NextInactive ==
    \/ DoCreateOf({MIN_AGE}, {"Savings"}, {Rs(1000)})
    \/ DoDeposit(FrozenAmounts)
    \/ DoWithdraw(FrozenAmounts)
    \/ DoTransferOf(FrozenAmounts)
    \/ DoReverse
    \/ DoImportOver({Rs(1000)}, {"inactive"})

SpecInactive == Init /\ [][NextInactive]_vars

\* Accounts of both types and both statuses, with balances that carry
\* fractions of a paisa, saved and loaded back at any time.
NextReload ==
    \/ DoCreateOf({MIN_AGE}, {"current"}, {Rs(1000)})
    \/ DoDeposit({SubPaisaDeposit})
    \/ DoImport({SubPaisaBalance}, {"inactive"})
    \/ Save
    \/ Reload

SpecReload == Init /\ [][NextReload]_vars

\* A log of creations, deposits and transfers, queried at any time.
NextHistory ==
    \/ DoCreateOf({MIN_AGE}, {"Savings"}, {Rs(1000)})
    \/ DoDeposit({Rs(200)})
    \/ DoTransferOf({Rs(100)})
    \/ DoHistory

SpecHistory == Init /\ [][NextHistory]_vars

\* Beneficiaries added and removed while accounts are being opened.
NextBeneficiary ==
    \/ DoCreateOf({MIN_AGE}, {"Savings"}, {Rs(1000)})
    \/ DoAddBeneficiary
    \/ DoRemoveBeneficiary

SpecBeneficiary == Init /\ [][NextBeneficiary]_vars

\* Accounts opened with 1000 or imported with 300,000, and transfers between
\* any two of them made with Account.transfer_to.
NextTransferTo ==
    \/ DoCreateOf({MIN_AGE}, {"Savings"}, {Rs(1000)})
    \/ DoImport({Rs(300000)}, ImportStatuses)
    \/ DoTransferTo

SpecTransferTo == Init /\ [][NextTransferTo]_vars

\* Jobs added and run from the menu; after main() has ended only a new
\* process can follow.
NextTasks ==
    \/ Running /\ DoCreateOf({MIN_AGE}, {"Savings"}, {Rs(1000)})
    \/ Running /\ DoSchedule
    \/ Running /\ DoAddRecurring
    \/ Running /\ RunDueTasks
    \/ Tick
    \/ Reload

SpecTasks == Init /\ [][NextTasks]_vars

\* One-shot and recurring jobs added, listed, cancelled and run as time
\* passes.
NextJobs ==
    \/ DoCreateOf({MIN_AGE}, {"Savings"}, {Rs(1000)})
    \/ DoScheduleOf({Rs(100)})
    \/ DoAddRecurringOf({Rs(100)})
    \/ DoCancelRecurring
    \/ ListScheduled
    \/ ListRecurring
    \/ RunDueScheduled
    \/ RunDueRecurring
    \/ Tick

SpecJobs == Init /\ [][NextJobs]_vars

\* PINs set and checked on open accounts, with or without bcrypt.
NextPin ==
    \/ DoCreateOf({MIN_AGE}, {"Savings", "current"}, {Rs(1000)})
    \/ DoSetPin
    \/ DoCheckPin
    \/ BcryptUnavailable

SpecPin == Init /\ [][NextPin]_vars

\* Accounts opened and the first one credited as time passes, and statements
\* exported for any account and range.
NextStatement ==
    \/ DoCreateOf({MIN_AGE}, {"Savings"}, {Rs(1000)})
    \/ Deposit(START_ACCOUNT_NO, Rs(200), NoLimit)
    \/ Tick
    \/ DoExportStatement

SpecStatement == Init /\ [][NextStatement]_vars

\* Accounts opened, the delete-all menu choice with any password typed, and
\* delete_all_accounts called without the admin flag.
NextAdmin ==
    \/ DoCreateOf({MIN_AGE}, {"Savings", "current"}, {Rs(1000), Rs(2000)})
    \/ DoMenuDeleteAll
    \/ DeleteAll(FALSE)
    \/ BcryptUnavailable

SpecAdmin == Init /\ [][NextAdmin]_vars

\* Transfers of a negative amount, of nothing and of a positive amount.
SignedAmounts == {Rs(-1000), 0, Rs(100)}

NextSigned ==
    \/ DoCreateOf({MIN_AGE}, {"Savings", "current"}, {Rs(1000), Rs(2000)})
    \/ DoTransferOf(SignedAmounts)

SpecSigned == Init /\ [][NextSigned]_vars

\* The operations that move money: deposits to and withdrawals from the
\* first account, reversals, and transfers made directly and by jobs, between
\* two accounts and from an account to itself.  The one-shot jobs pay the
\* second account, the recurring ones the first account itself; all are due
\* from time 0 on.
NextMoney ==
    \/ DoCreateOf({MIN_AGE}, {"Savings"}, {Rs(1000)})
    \/ Deposit(START_ACCOUNT_NO, Rs(200), NoLimit)
    \/ Withdraw(START_ACCOUNT_NO, Rs(100), NoLimit)
    \/ DoTransferOf({Rs(100), Rs(1000)})
    \/ DoReverse
    \/ ScheduleTransfer(START_ACCOUNT_NO, START_ACCOUNT_NO + 1, Rs(100), 0)
    \/ AddRecurring(START_ACCOUNT_NO, START_ACCOUNT_NO, Rs(100), 1, 0)
    \/ RunDueScheduled
    \/ RunDueRecurring

SpecMoney == Init /\ [][NextMoney]_vars

\* Accounts opened, imported under any number not yet held, and deleted.
NextImport ==
    \/ DoCreate
    \/ DoImport(ImportBalances, ImportStatuses)
    \/ DoDeleteAll

SpecImport == Init /\ [][NextImport]_vars

\* Accounts opened with any accepted deposit and moved from type to type.
NextUpgrade ==
    \/ DoCreate
    \/ DoUpgrade

SpecUpgrade == Init /\ [][NextUpgrade]_vars

\* Recurring jobs of any interval, run as time passes.
NextIntervals ==
    \/ DoCreateOf({MIN_AGE}, {"Savings"}, {Rs(1000)})
    \/ DoAddRecurringEvery
    \/ RunDueRecurringNear
    \/ Tick

SpecIntervals == Init /\ [][NextIntervals]_vars

\* Reversals on imported accounts that have counterparties, a lock, an
\* overdraft policy and pending jobs.
NextFrame ==
    \/ DoImport({Rs(1000)}, {"Active"})
    \/ DoTransferOf({Rs(100)})
    \/ LockAccount(START_ACCOUNT_NO)
    \/ DoSetOverdraft({START_ACCOUNT_NO})
    \/ ScheduleTransfer(START_ACCOUNT_NO, START_ACCOUNT_NO + 1, Rs(100), 0)
    \/ AddRecurring(START_ACCOUNT_NO, START_ACCOUNT_NO + 1, Rs(100), 1, 0)
    \/ DoReverse

SpecFrame == Init /\ [][NextFrame]_vars

\* The four balance-changing calls, with a transactions file that may be
\* unwritable.
NextLogFail ==
    \/ DoCreateOf(Ages, {"Savings"}, {Rs(1000)})
    \/ DoDepositCapped({0, Rs(200)})
    \/ DoWithdrawCapped({Rs(100)})
    \/ DoTransferBetween(START_ACCOUNT_NO, START_ACCOUNT_NO + 1, {Rs(100)})
    \/ LogBecomesUnwritable

SpecLogFail == Init /\ [][NextLogFail]_vars

\* ------------------------------------------------------------------------
\* Properties of the ledger (spec.md)
\* ------------------------------------------------------------------------

\* The documented floor of an account type: Savings 500, Current 1000.
minimumBalance(account_type) ==
    IF account_type = "Current" THEN Rs(1000) ELSE Rs(500)

\* The last row of a log.
LastRow(log) == log[Len(log)]

\* C1: after any deposit, withdrawal or transfer on accounts opened through
\* create_account, every account holds at least the minimum balance of its
\* type; an account with an overdraft policy holds at least minus its limit.
C1_MinimumBalanceInvariant ==
    \A n \in DOMAIN accounts :
        IF n \in DOMAIN overdraft
        THEN accounts[n].balance >= -overdraft[n].limit
        ELSE accounts[n].balance >= minimumBalance(accounts[n].account_type)

\* C2: a transfer that returns failure leaves the balances of both accounts
\* and the transaction log exactly as they were; a transfer of 1000 from an
\* active Savings account holding 600 to an active account is such a failure.
C2_FailedTransferChangesNothing ==
    [][ /\ (last'.op = "transfer" /\ ~last'.ok)
              => (accounts' = accounts /\ txlog' = txlog)
        /\ \A f \in AccNos, t \in AccNos :
              ( /\ Transfer(f, t, Rs(1000))
                /\ f \in DOMAIN accounts /\ t \in DOMAIN accounts
                /\ is_active(accounts[f]) /\ is_active(accounts[t])
                /\ accounts[f].account_type = "Savings"
                /\ accounts[f].balance = Rs(600) )
              => (~last'.ok /\ accounts' = accounts /\ txlog' = txlog)
      ]_vars

\* C2 case: a transfer has just been refused for insufficient funds while an
\* active Savings account holds 600 beside another active account.
C2_Witness ==
    /\ last = Result("transfer", FALSE, "InsufficientFunds")
    /\ \E f \in DOMAIN accounts, t \in DOMAIN accounts :
          /\ f # t
          /\ is_active(accounts[f]) /\ is_active(accounts[t])
          /\ accounts[f].account_type = "Savings"
          /\ accounts[f].balance = Rs(600)

\* C3: on an active account with an overdraft policy, a withdrawal the
\* ordinary rule rejects succeeds when balance - amount is negative and within
\* the limit; the balance becomes balance - amount - fee and the log gains an
\* OVERDRAFT_FEE row and a WITHDRAW row (balance 100, policy 200/10, withdraw
\* 250: balance -160).
C3_OverdraftAssistedWithdraw ==
    [][ \A n \in AccNos, a \in WithdrawAmounts :
          ( /\ Withdraw(n, a, NoLimit)
            /\ n \in DOMAIN accounts /\ n \in DOMAIN overdraft
            /\ is_active(accounts[n])
            /\ a > 0
            /\ accounts[n].balance - a < 0
            /\ Abs(accounts[n].balance - a) <= overdraft[n].limit )
          => /\ last'.ok
             /\ accounts'[n].balance
                   = accounts[n].balance - a - overdraft[n].fee
             /\ Len(txlog') = Len(txlog) + 2
             /\ IsPrefix(txlog, txlog')
             /\ {txlog'[Len(txlog) + 1].action, txlog'[Len(txlog) + 2].action}
                   = {<<"OVERDRAFT_FEE">>, <<"WITHDRAW">>}
      ]_vars

\* C4: deposit, withdraw and transfer on an account in the locked set are
\* rejected with AccountLocked and leave the accounts as they were.
C4_LockedAccountsReject ==
    [][ /\ \A n \in AccNos, a \in DepositAmounts :
              (Deposit(n, a, NoLimit) /\ n \in DOMAIN accounts
                  /\ n \in locked_accounts)
              => (~last'.ok /\ last'.err = "AccountLocked"
                     /\ accounts' = accounts)
        /\ \A n \in AccNos, a \in WithdrawAmounts :
              (Withdraw(n, a, NoLimit) /\ n \in DOMAIN accounts
                  /\ n \in locked_accounts)
              => (~last'.ok /\ last'.err = "AccountLocked"
                     /\ accounts' = accounts)
        /\ \A f \in AccNos, t \in AccNos, a \in TransferAmounts :
              (Transfer(f, t, a) /\ f \in DOMAIN accounts
                  /\ t \in DOMAIN accounts
                  /\ (f \in locked_accounts \/ t \in locked_accounts))
              => (~last'.ok /\ last'.err = "AccountLocked"
                     /\ accounts' = accounts)
      ]_vars

\* C5: an account without an overdraft policy never has a negative balance.
C5_NoNegativeBalanceWithoutOverdraft ==
    \A n \in DOMAIN accounts :
        n \notin DOMAIN overdraft => accounts[n].balance >= 0

\* C6: the account numbers create_account hands out start at 1001 and are
\* strictly increasing, so none is handed out twice, across account creation,
\* delete-all, save and reload.
C6_AccountNumbersNeverReused ==
    /\ issued # <<>> => issued[1] = 1001
    /\ \A i \in 1..Len(issued), j \in 1..Len(issued) :
          i < j => issued[i] < issued[j]

\* C7: the transaction log only grows: in every step the log before the step
\* is a prefix of the log after it.
C7_LogAppendOnly == [][IsPrefix(txlog, txlog')]_vars

\* C7 case: a reversal has just been applied and written its REVERSAL row
\* after the rows that were already there.
C7_Witness ==
    /\ last = Result("reverse", TRUE, "None")
    /\ Len(txlog) >= 2
    /\ Contains(LastRow(txlog).action, "REVERSAL")

\* C8: a transfer between two active accounts fails with InsufficientFunds
\* whenever the source balance minus the amount is below the minimum balance
\* of the source account's type.
C8_TransferHonoursTypeMinimum ==
    [][ \A f \in AccNos, t \in AccNos, a \in TransferAmounts :
          ( /\ Transfer(f, t, a)
            /\ f \in DOMAIN accounts /\ t \in DOMAIN accounts
            /\ is_active(accounts[f]) /\ is_active(accounts[t])
            /\ accounts[f].balance - a
                  < minimumBalance(accounts[f].account_type) )
          => (~last'.ok /\ last'.err = "InsufficientFunds")
      ]_vars

\* C9: on an Active account without an overdraft policy, withdraw succeeds
\* exactly when the amount is positive and balance - amount is at least the
\* minimum balance of the type; a success lowers the balance by exactly the
\* amount and appends one WITHDRAW row, a failure leaves the accounts and the
\* log unchanged.
C9_WithdrawContract ==
    [][ \A n \in AccNos, a \in WithdrawAmounts :
          ( /\ Withdraw(n, a, NoLimit)
            /\ n \in DOMAIN accounts
            /\ is_active(accounts[n])
            /\ n \notin DOMAIN overdraft )
          => LET allowed ==
                     /\ a > 0
                     /\ accounts[n].balance - a
                           >= minimumBalance(accounts[n].account_type)
             IN /\ last'.ok <=> allowed
                /\ allowed =>
                      /\ accounts' = [accounts EXCEPT ![n].balance = @ - a]
                      /\ txlog' = Append(txlog,
                            [account_number |-> n, action |-> <<"WITHDRAW">>,
                             peer |-> 0, amount |-> a,
                             balance_after |-> accounts[n].balance - a,
                             timestamp |-> now])
                /\ ~allowed => (accounts' = accounts /\ txlog' = txlog)
      ]_vars

\* C9 case: a Savings account opened with 500 refused a withdrawal of 100,
\* took a deposit of 200 (balance 700) and then gave out 100 (balance 600).
C9_Witness ==
    /\ last = Result("withdraw", TRUE, "None")
    /\ START_ACCOUNT_NO \in DOMAIN accounts
    /\ accounts[START_ACCOUNT_NO] = NewAccount("Savings", Rs(600), "Active")
    /\ Len(txlog) = 3
    /\ txlog[1].action = <<"CREATE">> /\ txlog[1].balance_after = Rs(500)
    /\ txlog[2].action = <<"DEPOSIT">> /\ txlog[2].balance_after = Rs(700)
    /\ txlog[3].action = <<"WITHDRAW">> /\ txlog[3].amount = Rs(100)
    /\ txlog[3].balance_after = Rs(600)

C11_InactiveAccountsAreFrozen ==
    [][ \A n \in AccNos :
          (n \in DOMAIN accounts /\ accounts[n].status = "Inactive")
          => /\ last'.op \in {"deposit", "withdraw", "transfer", "reverse"}
                   => /\ n \in DOMAIN accounts'
                      /\ accounts'[n].balance = accounts[n].balance
             /\ \A a \in FrozenAmounts :
                   Deposit(n, a, NoLimit)
                   => (~last'.ok /\ accounts' = accounts)
             /\ \A a \in FrozenAmounts :
                   Withdraw(n, a, NoLimit)
                   => (~last'.ok /\ accounts' = accounts)
             /\ \A m \in AccNos, a \in FrozenAmounts :
                   (Transfer(n, m, a) \/ Transfer(m, n, a))
                   => (~last'.ok /\ accounts' = accounts)
             /\ ReverseLast(n) => (~last'.ok /\ accounts' = accounts)
      ]_vars

\* C11 case: a reversal has just been refused on an Inactive account whose
\* most recent record is a DEPOSIT.
C11_Witness ==
    /\ last = Result("reverse", FALSE, "AccountInactive")
    /\ \E n \in DOMAIN accounts :
          /\ accounts[n].status = "Inactive"
          /\ read_transactions_for(txlog, n, 1) # <<>>
          /\ read_transactions_for(txlog, n, 1)[1].action = <<"DEPOSIT">>

HasRecord(n) == read_transactions_for(txlog, n, 1) # <<>>
MostRecent(n) == read_transactions_for(txlog, n, 1)[1]

\* C13: reverseLastTransaction reads the most recent record of the account;
\* for a credit (DEPOSIT, TRANSFER_IN) it withdraws the recorded amount, for a
\* debit (WITHDRAW, TRANSFER_OUT) it deposits it; on success the balance is
\* back at its value before the reversed operation and one REVERSAL record
\* follows the untouched earlier records; when the compensating withdrawal
\* or deposit is refused, balance and log are unchanged.
C13_ReversalCompensates ==
    [][ \A n \in AccNos :
          (ReverseLast(n) /\ n \in DOMAIN accounts /\ HasRecord(n))
          => LET row == MostRecent(n)
                 acc == accounts[n]
                 credit == row.action \in {<<"DEPOSIT">>, <<"TRANSFER_IN">>}
                 debit == row.action \in {<<"WITHDRAW">>, <<"TRANSFER_OUT">>}
                 accepted ==
                     IF credit
                     THEN /\ acc.status = "Active" /\ row.amount > 0
                          /\ acc.balance - row.amount
                                >= minimumBalance(acc.account_type)
                     ELSE /\ acc.status = "Active" /\ row.amount > 0
                          /\ row.amount <= Rs(100000)
             IN (credit \/ debit)
                => /\ last'.ok <=> accepted
                   /\ accepted =>
                         /\ accounts' = [accounts EXCEPT ![n].balance =
                               IF credit THEN @ - row.amount
                               ELSE @ + row.amount]
                         /\ accounts'[n].balance =
                               IF credit THEN row.balance_after - row.amount
                               ELSE row.balance_after + row.amount
                         /\ Len(txlog') = Len(txlog) + 1
                         /\ IsPrefix(txlog, txlog')
                         /\ LastRow(txlog').account_number = n
                         /\ Contains(LastRow(txlog').action, "REVERSAL")
                   /\ ~accepted => (accounts' = accounts /\ txlog' = txlog)
      ]_vars

\* C13 case: a deposit has just been reversed, its REVERSAL record written
\* after the DEPOSIT record.
C13_Witness ==
    /\ last = Result("reverse", TRUE, "None")
    /\ Len(txlog) >= 3
    /\ LastRow(txlog).action = <<"REVERSAL", "DEPOSIT">>
    /\ txlog[Len(txlog) - 1].action = <<"DEPOSIT">>

\* C14: reverseLastTransaction fails with NotReversible and leaves balance
\* and log unchanged whenever the most recent record of the account is
\* neither DEPOSIT, TRANSFER_IN, WITHDRAW nor TRANSFER_OUT (a CREATE,
\* OVERDRAFT_FEE or REVERSAL record); two reversals in a row never apply a
\* second balance change.
C14_OnlyPlainRecordsAreReversible ==
    [][ \A n \in AccNos :
          ( /\ ReverseLast(n)
            /\ n \in DOMAIN accounts
            /\ HasRecord(n)
            /\ MostRecent(n).action
                  \notin {<<"DEPOSIT">>, <<"TRANSFER_IN">>, <<"WITHDRAW">>,
                          <<"TRANSFER_OUT">>} )
          => /\ ~last'.ok
             /\ last'.err = "NotReversible"
             /\ accounts' = accounts
             /\ txlog' = txlog
      ]_vars

\* C15: scheduled transfers are one-shot: runDueScheduled attempts one
\* transfer for every pending job with executeAt <= now and drops the job
\* whether the transfer succeeded or failed; the jobs with executeAt > now
\* stay pending, untouched and in order; no other step takes a job away, so
\* a job is attempted at most once.
C15_ScheduledJobsAreOneShot ==
    [][ /\ RunDueScheduled
           => LET IsDue(job) == job.execute_at <= now
                  NotDue(job) == job.execute_at > now
                  due == SelectSeq(scheduled_transfers, IsDue)
              IN /\ scheduled_transfers'
                       = SelectSeq(scheduled_transfers, NotDue)
                 /\ last'.n = Len(due)
                 /\ Len(txlog') <= Len(txlog) + 2 * Len(due)
                 /\ IsPrefix(txlog, txlog')
                 /\ due = <<>> => (accounts' = accounts /\ txlog' = txlog)
        /\ last'.op # "run_due_scheduled"
           => IsPrefix(scheduled_transfers, scheduled_transfers')
      ]_vars

\* C15 case: a call has just attempted the one due job, whose transfer was
\* refused, and dropped it, while a job due later is still pending.
C15_Witness ==
    /\ last = Counted("run_due_scheduled", 1)
    /\ Len(scheduled_transfers) = 1
    /\ scheduled_transfers[1].execute_at > now
    /\ DOMAIN accounts = {START_ACCOUNT_NO, START_ACCOUNT_NO + 1}
    /\ \A i \in 1..Len(txlog) : txlog[i].action = <<"CREATE">>

\* C16: recurring jobs re-arm: runDueRecurring makes exactly one transfer
\* attempt for every job with nextRun <= now, however many intervals were
\* missed, moves that job's nextRun by intervalDays whether the transfer
\* succeeded or failed, leaves the jobs with nextRun > now unchanged and
\* removes no job.
C16_RecurringJobsReArm ==
    [][ RunDueRecurring
        => LET IsDue(job) == job.next_run <= now
               due == SelectSeq(recurring_payments, IsDue)
           IN /\ Len(recurring_payments') = Len(recurring_payments)
              /\ \A i \in 1..Len(recurring_payments) :
                    recurring_payments'[i] =
                        IF IsDue(recurring_payments[i])
                        THEN [recurring_payments[i] EXCEPT
                                 !.next_run = @ + recurring_payments[i].interval_days]
                        ELSE recurring_payments[i]
              /\ last'.n = Len(due)
              /\ Len(txlog') <= Len(txlog) + 2 * Len(due)
              /\ IsPrefix(txlog, txlog')
              /\ due = <<>> => (accounts' = accounts /\ txlog' = txlog)
      ]_vars

\* C16 case: one interval after its start a job was run for the first time;
\* its transfer was refused and its nextRun moved by one interval, so it is
\* due again at once, while a second job is not due yet.
C16_Witness ==
    /\ last = Counted("run_due_recurring", 1)
    /\ now = 1
    /\ Len(recurring_payments) = 2
    /\ \E i \in 1..2, j \in 1..2 :
          /\ recurring_payments[i].next_run = 1
          /\ recurring_payments[i].amount = Rs(1000)
          /\ recurring_payments[j].next_run > now
    /\ DOMAIN accounts = {START_ACCOUNT_NO, START_ACCOUNT_NO + 1}
    /\ \A i \in 1..Len(txlog) : txlog[i].action = <<"CREATE">>

\* C17: with a daily limit L supplied, a deposit or withdrawal on an
\* account fails with DailyLimitExceeded and leaves the balance unchanged
\* whenever the account's running total of the day plus the amount exceeds
\* L; the running total grows by the amount exactly when the operation
\* succeeds and is unchanged when it fails; with L supplied on every call no
\* running total exceeds L.
C17_DailyLimit ==
    [][ /\ \A n \in AccNos, a \in {0, Rs(100), Rs(200), Rs(1000)} :
              ( /\ Deposit(n, a, {DailyLimit}) \/ Withdraw(n, a, {DailyLimit})
                /\ n \in DOMAIN accounts )
              => LET total == daily_total(daily_totals, <<n, now>>)
                 IN /\ total + a > DailyLimit
                          => /\ last'.ok = FALSE
                             /\ last'.err = "DailyLimitExceeded"
                             /\ accounts' = accounts
                    /\ daily_total(daily_totals', <<n, now>>)
                          = IF last'.ok THEN total + a ELSE total
                    /\ \A k \in DOMAIN daily_totals \ {<<n, now>>} :
                          /\ k \in DOMAIN daily_totals'
                          /\ daily_totals'[k] = daily_totals[k]
                    /\ ~last'.ok => accounts' = accounts
        /\ \A k \in DOMAIN daily_totals' : daily_totals'[k] <= DailyLimit
      ]_vars

\* C17 case: after a deposit of 200 and a withdrawal of 100 on the same day
\* the running total is at the limit of 300, and a further deposit has just
\* been refused for the daily limit.
C17_Witness ==
    /\ last = Result("deposit", FALSE, "DailyLimitExceeded")
    /\ \E n \in DOMAIN accounts :
          /\ daily_total(daily_totals, <<n, now>>) = DailyLimit
          /\ accounts[n].balance = Rs(1100)

\* C18: a successful transfer lowers the source balance by exactly the
\* amount, raises the destination balance by exactly the amount, changes no
\* other account and appends exactly two records in this order: TRANSFER_OUT
\* for the source with the source's balance after the debit, TRANSFER_IN for
\* the destination with the destination's balance after the credit.
C18_TransferMovesAndRecords ==
    [][ \A f \in AccNos, t \in AccNos, a \in TransferAmounts :
          (Transfer(f, t, a) /\ last'.ok)
          => LET debited == [accounts EXCEPT ![f].balance = @ - a]
                 credited == [debited EXCEPT ![t].balance = @ + a]
             IN /\ accounts' = credited
                /\ txlog' = txlog \o
                      << [account_number |-> f, action |-> <<"TRANSFER_OUT">>,
                          peer |-> t, amount |-> a,
                          balance_after |-> debited[f].balance,
                          timestamp |-> now],
                         [account_number |-> t, action |-> <<"TRANSFER_IN">>,
                          peer |-> f, amount |-> a,
                          balance_after |-> credited[t].balance,
                          timestamp |-> now] >>
      ]_vars

\* C19: a failing log write never reverts or fails a balance change.  While
\* the transactions file cannot be written, a deposit, withdrawal, transfer
\* or account creation that passes its own checks still returns success and
\* keeps the new balance or the new account, the log stays as it was, and no
\* such call returns a failure after changing an account.
C19_LogFailureKeepsBalanceChange ==
    [][ ~log_writable =>
        /\ \A n \in AccNos, a \in {0, Rs(200)} :
             Deposit(n, a, NoLimit)
             => /\ txlog' = txlog
                /\ ~last'.ok => accounts' = accounts
                /\ (n \in DOMAIN accounts /\ is_active(accounts[n]) /\ a > 0)
                   => /\ last'.ok
                      /\ accounts' = [accounts EXCEPT ![n].balance = @ + a]
        /\ \A n \in AccNos, a \in {Rs(100)} :
             Withdraw(n, a, NoLimit)
             => /\ txlog' = txlog
                /\ ~last'.ok => accounts' = accounts
                /\ ( /\ n \in DOMAIN accounts
                     /\ is_active(accounts[n])
                     /\ accounts[n].balance - a
                           >= minimumBalance(accounts[n].account_type) )
                   => /\ last'.ok
                      /\ accounts' = [accounts EXCEPT ![n].balance = @ - a]
        /\ \A f \in {START_ACCOUNT_NO}, t \in {START_ACCOUNT_NO + 1},
              a \in {Rs(100)} :
             Transfer(f, t, a)
             => /\ txlog' = txlog
                /\ ~last'.ok => accounts' = accounts
                /\ ( /\ f \in DOMAIN accounts /\ t \in DOMAIN accounts
                     /\ f # t
                     /\ is_active(accounts[f]) /\ is_active(accounts[t])
                     /\ accounts[f].balance - a >= MEMBER2_MIN_BALANCE )
                   => /\ last'.ok
                      /\ accounts' = [accounts EXCEPT ![f].balance = @ - a,
                                                      ![t].balance = @ + a]
        /\ \A age \in Ages :
             CreateAccount(age, "Savings", Rs(1000))
             => /\ txlog' = txlog
                /\ ~last'.ok => accounts' = accounts
                /\ age >= MIN_AGE
                   => /\ last'.ok
                      /\ next_account_number \in DOMAIN accounts'
                      /\ accounts'[next_account_number]
                            = NewAccount("Savings", Rs(1000), "Active")
                      /\ \A n \in DOMAIN accounts : accounts'[n] = accounts[n]
      ]_vars

\* C19 case: with the transactions file unwritable, an account was opened
\* with 1000 and took a deposit of 200: the deposit succeeded, the balance is
\* 1200 and no row was written.
C19_Witness ==
    /\ ~log_writable
    /\ last = Result("deposit", TRUE, "None")
    /\ txlog = <<>>
    /\ START_ACCOUNT_NO \in DOMAIN accounts
    /\ accounts[START_ACCOUNT_NO].balance = Rs(1200)

\* The (accountNumber, balance to 2 decimals, status, accountType) tuples of
\* an account collection.
Tuples(accs) ==
    { <<n, Format2(accs[n].balance), accs[n].status, accs[n].account_type>> :
        n \in DOMAIN accs }

\* C20: saving the accounts and loading them back yields exactly the same set
\* of (accountNumber, balance rounded to 2 decimals, status, accountType)
\* tuples: what a save writes loads back to the tuples of the accounts saved,
\* and a reload of a file that is the save of the current accounts leaves
\* their tuples as they were.
C20_IdempotentReload ==
    [][ /\ Save => Tuples(load_accounts(disk')) = Tuples(accounts)
        /\ (Reload /\ disk = save_accounts(accounts))
           => Tuples(accounts') = Tuples(accounts)
      ]_vars

\* C20 case: a Current account that held 1200.004 after a deposit of 200.004
\* and an imported Inactive Savings account that held 100.006 have just been
\* loaded back from their file, with 1200.00 and 100.01.
C20_Witness ==
    /\ last = Result("reload", TRUE, "None")
    /\ disk = save_accounts(accounts)
    /\ \E n \in DOMAIN accounts :
          /\ accounts[n] = NewAccount("Current", Rs(1200), "Active")
          /\ HasRecord(n)
          /\ MostRecent(n).balance_after = Rs(1000) + SubPaisaDeposit
    /\ \E n \in DOMAIN accounts :
          accounts[n] = NewAccount("Savings", Rs(100) + 10, "Inactive")

\* The records of account n in a log, most recent first.
RecordsOf(log, n) ==
    LET RECURSIVE from(_)
        from(i) == IF i = 0 THEN <<>>
                   ELSE IF log[i].account_number = n
                        THEN <<log[i]>> \o from(i - 1)
                        ELSE from(i - 1)
    IN from(Len(log))

\* C21: queryByAccount(accountNumber, limit) returns only records of that
\* account, most recent first, never more than limit records for any
\* limit >= 0, and exactly the limit most recent ones when the account has at
\* least that many.
C21_QueryByAccount ==
    [][ \A n \in AccNos, limit \in Limits :
          TransactionHistory(n, limit)
          => LET all == RecordsOf(txlog, n)
             IN /\ Len(history') <= limit
                /\ IsPrefix(history', all)
                /\ Len(all) >= limit => Len(history') = limit
      ]_vars

\* The beneficiary accounts an owner has registered (none without a list).
Registered(bens, owner) ==
    IF owner \in DOMAIN bens
    THEN {bens[owner][i].acc : i \in DOMAIN bens[owner]} ELSE {}

\* C22: beneficiary entries are unique per (owner, beneficiary) pair: no
\* owner's list ever holds the same beneficiary account twice; adding a pair
\* already present or a beneficiary account that does not exist fails and
\* leaves the registry unchanged; removing an absent pair fails and leaves it
\* unchanged.
C22_BeneficiariesUnique ==
    [][ /\ \A o \in DOMAIN beneficiaries' :
             \A i \in DOMAIN beneficiaries'[o], j \in DOMAIN beneficiaries'[o] :
                beneficiaries'[o][i].acc = beneficiaries'[o][j].acc => i = j
        /\ \A o \in AccNos, b \in AccNos, nick \in Nicknames :
             ( /\ AddBeneficiary(o, b, nick)
               /\ (b \in Registered(beneficiaries, o) \/ b \notin DOMAIN accounts) )
             => (~last'.ok /\ beneficiaries' = beneficiaries)
        /\ \A o \in AccNos, b \in AccNos :
             (RemoveBeneficiary(o, b) /\ b \notin Registered(beneficiaries, o))
             => (~last'.ok /\ beneficiaries' = beneficiaries)
      ]_vars

\* C22 case: the first account holds the second as a beneficiary, and adding
\* the second again has just been refused.
C22_Witness ==
    /\ last = Result("add_beneficiary", FALSE, "BeneficiaryExists")
    /\ START_ACCOUNT_NO \in DOMAIN beneficiaries
    /\ Len(beneficiaries[START_ACCOUNT_NO]) = 1
    /\ beneficiaries[START_ACCOUNT_NO][1].acc = START_ACCOUNT_NO + 1

\* C23: Account.transferTo(other, amount) is atomic: whenever it returns
\* failure, including a withdrawal that succeeded followed by a refused
\* deposit (amount above the 100,000 cap), the sender's and the recipient's
\* balances are what they were before the call.
C23_TransferToAtomic ==
    [][ \A f \in AccNos, t \in AccNos, amount \in TransferToAmounts :
          (TransferTo(f, t, amount) /\ ~last'.ok) => accounts' = accounts
      ]_vars

\* C24: through the exposed interface, running due jobs executes due
\* recurring jobs: when a recurring job's nextRun is <= now, the caller's
\* "run due scheduled/recurring tasks" operation attempts its transfer and
\* re-arms it, without raising.
C24_RunDueTasksRunsRecurring ==
    [][ ( /\ RunDueTasks
          /\ \E i \in DOMAIN recurring_payments :
                recurring_payments[i].next_run <= now )
        => /\ last'.ok
           /\ \A i \in DOMAIN recurring_payments :
                 recurring_payments[i].next_run <= now
                 => recurring_payments'[i].next_run
                       = recurring_payments[i].next_run
                         + recurring_payments[i].interval_days
      ]_vars

\* C25: scheduling is pull-based: scheduleTransfer, addRecurring and the
\* listing and cancelling of jobs change no balance and append no log record,
\* even when the job's execution time is already <= now; balances change on
\* behalf of a job only inside an explicit runDueScheduled or
\* runDueRecurring call.
C25_SchedulingIsPullBased ==
    [][ /\ ( \/ DoSchedule \/ DoAddRecurring \/ DoCancelRecurring
             \/ ListScheduled \/ ListRecurring )
           => (accounts' = accounts /\ txlog' = txlog)
        /\ (accounts' # accounts \/ txlog' # txlog)
           => ( \/ RunDueScheduled \/ RunDueRecurring
                \/ DoCreateOf({MIN_AGE}, {"Savings"}, {Rs(1000)}) )
      ]_vars

\* C25 case: a transfer of 100 that is already due has just been scheduled
\* between two open accounts, and both still hold their opening 1000.
C25_Witness ==
    /\ last = Result("schedule_transfer", TRUE, "None")
    /\ scheduled_transfers # <<>>
    /\ scheduled_transfers[Len(scheduled_transfers)].execute_at <= now
    /\ scheduled_transfers[Len(scheduled_transfers)].amount = Rs(100)
    /\ \A n \in {START_ACCOUNT_NO, START_ACCOUNT_NO + 1} :
          n \in DOMAIN accounts /\ accounts[n].balance = Rs(1000)
    /\ \A i \in 1..Len(txlog) : txlog[i].action = <<"CREATE">>

\* C26: setPin(plain) with fewer than 4 characters fails and leaves the
\* stored credential unchanged; otherwise it stores a one-way hash, never the
\* plaintext; checkPin is false when no PIN is set; after a successful
\* setPin(p), checkPin(p) is true and checkPin(q) false for every q # p,
\* until the next successful setPin.
C26_PinContract ==
    [][ \A n \in AccNos, p \in Pins :
          /\ (SetPin(n, p) /\ n \in DOMAIN accounts)
             => IF Len(p) < 4
                THEN ~last'.ok /\ accounts' = accounts
                ELSE /\ last'.ok
                     /\ accounts' = [accounts EXCEPT ![n].pin = HashedPin(p)]
          /\ (CheckPin(n, p) /\ n \in DOMAIN accounts)
             => /\ accounts[n].pin = NoPin => ~last'.ok
                /\ accounts[n].pin # NoPin
                   => (last'.ok <=> accounts[n].pin.text = p)
      ]_vars

\* C27: export_statement(acc, start, end) selects exactly the records of acc
\* with start <= timestamp <= end, an absent bound being unbounded on its
\* side, and writes them oldest first; a record whose timestamp equals start
\* or end is included.  (With nothing selected the call reports that and
\* writes no file.)
C27_StatementRangeInclusive ==
    [][ \A n \in StatementAccounts, s \in DateBounds, e \in DateBounds :
          ExportStatement(n, s, e)
          => LET InRange(r) == /\ r.account_number = n
                               /\ \A t \in s : t <= r.timestamp
                               /\ \A t \in e : r.timestamp <= t
                 selected == SelectSeq(txlog, InRange)
             IN IF selected = <<>>
                THEN ~last'.ok /\ statement' = statement
                ELSE last'.ok /\ statement' = selected
      ]_vars

\* C27 case: a statement from time 1 to time 1 has just been written for an
\* account that has a record at time 0 and a record at time 1: it holds the
\* record made at time 1, which lies on both bounds, and not the earlier one.
C27_Witness ==
    /\ last = Result("export_statement", TRUE, "None")
    /\ statement # <<>>
    /\ \A i \in DOMAIN statement : statement[i].timestamp = 1
    /\ \E i \in DOMAIN txlog :
          /\ txlog[i].account_number = statement[1].account_number
          /\ txlog[i].timestamp = 0

\* C28: delete-all is admin-gated.  While no admin password is stored, no
\* delete-all request removes an account (the request can only store the
\* password); delete_all_accounts(admin=False) fails and leaves the accounts
\* as they were; and an account is removed only by a request whose password is
\* the stored one.
C28_DeleteAllAdminGated ==
    [][ /\ \A pwd \in AdminPasswords, confirm \in AdminPasswords :
             MenuDeleteAll(pwd, confirm) /\ admin_hash = NoPin
             => accounts' = accounts
        /\ DeleteAll(FALSE) => ~last'.ok /\ accounts' = accounts
        /\ (\E n \in DOMAIN accounts : n \notin DOMAIN accounts')
             => \E pwd \in AdminPasswords :
                   /\ admin_hash = HashedPin(pwd)
                   /\ Len(pwd) >= 6
                   /\ \E confirm \in AdminPasswords : MenuDeleteAll(pwd, confirm)
      ]_vars

\* C28 case: accounts were opened, a password was stored by one request, and
\* a later request with that password has just deleted them.
C28_Witness ==
    /\ last = Result("delete_all", TRUE, "None")
    /\ admin_hash # NoPin
    /\ next_account_number > START_ACCOUNT_NO
    /\ accounts = EmptyMap

\* C29: transfer(from, to, amount) with amount <= 0 fails and leaves both
\* balances and the log unchanged.
C29_NonPositiveTransferFails ==
    [][ \A f \in AccNos, t \in AccNos, a \in SignedAmounts :
          Transfer(f, t, a) /\ a <= 0
          => /\ ~last'.ok
             /\ accounts' = accounts
             /\ txlog' = txlog
      ]_vars

\* The sum of the balances of the accounts numbered in nos.
RECURSIVE SumOfBalances(_, _)
SumOfBalances(accs, nos) ==
    IF nos = {} THEN 0
    ELSE LET n == CHOOSE m \in nos : TRUE
         IN accs[n].balance + SumOfBalances(accs, nos \ {n})

TotalBalance(accs) == SumOfBalances(accs, DOMAIN accs)

\* C30: every transfer, successful or failed, made directly or by a
\* scheduled or recurring job, between two accounts or from an account to
\* itself, leaves the sum of all balances unchanged; the sum changes only in
\* a create_account, deposit, withdraw (with its overdraft fee) or reversal.
C30_ConservationOfMoney ==
    [][ /\ ( \/ \E f \in AccNos, t \in AccNos, a \in {Rs(100), Rs(1000)} :
                   Transfer(f, t, a)
             \/ RunDueScheduled
             \/ RunDueRecurring )
           => TotalBalance(accounts') = TotalBalance(accounts)
        /\ TotalBalance(accounts') # TotalBalance(accounts)
           => last'.op \in {"create", "deposit", "withdraw", "reverse"}
      ]_vars

\* C30 case: a job has just moved 100.00 from the first account to the
\* second, and the two balances still add up to the 2000.00 they were opened
\* with.
C30_Witness ==
    /\ last.op = "run_due_scheduled"
    /\ last.n >= 1
    /\ DOMAIN accounts = {START_ACCOUNT_NO, START_ACCOUNT_NO + 1}
    /\ accounts[START_ACCOUNT_NO].balance = Rs(900)
    /\ accounts[START_ACCOUNT_NO + 1].balance = Rs(1100)
    /\ TotalBalance(accounts) = Rs(2000)

C32_CreateNeverReplaces ==
    [][ \A age \in Ages, type \in TypeInputs, initial \in OpeningAmounts :
          CreateAccount(age, type, initial) /\ last'.ok
          => /\ next_account_number \notin DOMAIN accounts
             /\ \A n \in DOMAIN accounts :
                   /\ n \in DOMAIN accounts'
                   /\ accounts'[n].balance = accounts[n].balance
      ]_vars

\* C33: after a successful upgrade_account_type(acc, newType) the balance of
\* acc is at least the minimum balance of newType; an upgrade that would
\* leave the balance below that floor is refused with the account unchanged.
C33_UpgradeKeepsMinimumBalance ==
    [][ \A n \in AccNos, t \in TypeInputs :
          UpgradeAccountType(n, t)
          => /\ last'.ok
                => accounts'[n].balance
                      >= minimumBalance(accounts'[n].account_type)
             /\ ( /\ n \in DOMAIN accounts
                  /\ accounts[n].balance < minimumBalance(Title(t)) )
                => ~last'.ok /\ accounts' = accounts
      ]_vars

\* C34: cancel_recurring(index) succeeds exactly when 0 <= index < number of
\* recurring jobs, and then removes the job at that position and no other;
\* for any other index it fails and leaves the list unchanged.
C34_CancelByIndex ==
    [][ \A index \in {-1, 0, MaxJobs} :
          CancelRecurring(index)
          => IF 0 <= index /\ index < Len(recurring_payments)
             THEN /\ last'.ok
                  /\ recurring_payments' =
                        SubSeq(recurring_payments, 1, index)
                        \o SubSeq(recurring_payments, index + 2,
                                  Len(recurring_payments))
             ELSE /\ ~last'.ok
                  /\ recurring_payments' = recurring_payments
      ]_vars

\* C35: for every recurring job add_recurring accepted, whatever its
\* interval_days, an execution by run_due_recurring leaves its nextRun
\* strictly later than before (so that, for a fixed now, finitely many
\* consecutive runs bring it to nextRun > now).
C35_RecurringProgress ==
    [][ RunDueRecurring
        => \A i \in DOMAIN recurring_payments :
              recurring_payments[i].next_run <= now
              => recurring_payments'[i].next_run
                    > recurring_payments[i].next_run
      ]_vars

\* C36: for every pair of accounts and every numeric amount, the path
\* BankingService.transfer takes with member2 (Member2Features.transfer with
\* min_balance 500) and its fallback path through Account.transfer_to return
\* the same success or failure and leave the same balances on both accounts.
C36_TransferPathsAgree ==
    [][ \A f \in AccNos, t \in AccNos, a \in {Rs(100), Rs(1000)} :
          Transfer(f, t, a)
          => LET r == transfer_fallback(accounts, txlog, f, t, a)
             IN /\ last'.ok = r.ok
                /\ \A n \in {f, t} \cap DOMAIN accounts :
                      accounts'[n].balance = r.accounts[n].balance
      ]_vars

\* C37: reverseLastTransaction(acc) changes at most the balance of acc: the
\* accounts are the same ones, acc keeps its type and status, every other
\* account keeps its balance, status and log records, including the
\* counterparty of a reversed TRANSFER_IN or TRANSFER_OUT, and the job lists,
\* the locks and the overdraft policies are unchanged.
C37_ReversalFrame ==
    [][ \A n \in AccNos :
          ReverseLast(n)
          => /\ DOMAIN accounts' = DOMAIN accounts
             /\ \A m \in DOMAIN accounts :
                   IF m = n
                   THEN accounts'[m] =
                            [accounts[m] EXCEPT !.balance = accounts'[m].balance]
                   ELSE /\ accounts'[m] = accounts[m]
                        /\ RecordsOf(txlog', m) = RecordsOf(txlog, m)
             /\ scheduled_transfers' = scheduled_transfers
             /\ recurring_payments' = recurring_payments
             /\ locked_accounts' = locked_accounts
             /\ overdraft' = overdraft
      ]_vars

\* C37 case: the second account has just reversed the 100.00 it received
\* from the first one: it is back at 1000.00 while the first account, the
\* counterparty, still stands at 900.00.
C37_Witness ==
    /\ last = Result("reverse", TRUE, "None")
    /\ DOMAIN accounts = {START_ACCOUNT_NO, START_ACCOUNT_NO + 1}
    /\ LastRow(txlog).action = <<"REVERSAL", "TRANSFER_IN">>
    /\ LastRow(txlog).account_number = START_ACCOUNT_NO + 1
    /\ accounts[START_ACCOUNT_NO + 1].balance = Rs(1000)
    /\ accounts[START_ACCOUNT_NO].balance = Rs(900)

====
